---- MODULE Spec2Model ----
(***************************************************************************)
(* Model of the ingestion pipeline of RAG-MariaDb-Qdrant.                  *)
(*                                                                         *)
(*   IngestionService.ingest_document   src/app/services/ingestion.py      *)
(*   Database (MariaDB + Qdrant)        src/app/database.py,               *)
(*                                      src/app/classes/database.py        *)
(*   Document                           src/app/document.py,               *)
(*                                      src/app/classes/document.py        *)
(*   fill_page_number                   src/app/helpers/fill_page_number.py*)
(*                                                                         *)
(* ingestion.py imports Document and Database from app.document and        *)
(* app.database, so those are the collaborators of ingest_document here;   *)
(* app/classes holds the later Document (page_to_qdrant) and Database      *)
(* (mark_document_indexed), which ingest_document does not call.           *)
(*                                                                         *)
(* A call of ingest_document is a sequence of steps (construct Document,   *)
(* look the hash up, update the path or insert, then per page: render and  *)
(* embed, upsert).  Each step is one action, ordered by the call's pc, so  *)
(* that a step that raises leaves the stores as the earlier steps made     *)
(* them.  A relational transaction (insert_document) is one atomic step:   *)
(* InnoDB shows other connections nothing of it before the commit.         *)
(***************************************************************************)
EXTENDS Integers, Sequences, FiniteSets, TLC

\* ------------------------------------------------------------------ bounds
MaxCalls == 2          \* calls of ingest_document in one behaviour
MaxPages == 2          \* pages (= bytes, see PageCount) of an input file
MaxTotal == 120        \* largest total_pages given to fill_page_number
MaxFaults == 1         \* backend failures (database, model, qdrant) in one behaviour
ChunkSize == 1         \* bytes per read of the hasher (65536 in the source)
MaxBatch == 2          \* files in one upload request
MaxTextLen == 6        \* characters of a text given to _clip
MaxDocPages == 2       \* pages of a document made of page templates
MaxLongPages == 13     \* pages of a document with a repeated header/footer
MaxRepeats == 4        \* pages that carry the repeated header (footer)
MaxHits == 2           \* points Qdrant ranks for one query

Calls == 1..MaxCalls

VARIABLES
    documents,        \* MariaDB table documents: set of rows
    pages,            \* MariaDB table pages (app/database.py): set of rows
    nextDocId,        \* AUTO_INCREMENT counter of documents.id
    qdrant,           \* Qdrant collection rag_collection: set of points
    faults,           \* backend failures so far
    pc,               \* per call: position in ingest_document
    arg,              \* per call: the file at file_path when the call reads it
    document,         \* per call: the Document object (set: empty or one)
    document_exists,  \* per call: local document_exists (set: empty or one row)
    result,           \* per call: local result of insert_document (set)
    p,                \* per call: loop variable p
    points,           \* per call: local list points
    ret,              \* per call: what the caller gets (return value / exception)
    fpn_page,         \* argument page of fill_page_number
    fpn_total,        \* argument total_pages of fill_page_number
    fpn_out,          \* value returned by the last fill_page_number call
    model_loads,      \* ColPali.from_pretrained calls so far in the process
    txn_documents,    \* rows of documents written by the open transaction
    txn_pages,        \* rows of pages written by the open transaction
    files,            \* upload_pdfs: the uploaded files of the request
    file_idx,         \* upload_pdfs: position of the loop `for file in files`
    results,          \* upload_pdfs: local list results
    up_doc,           \* upload_pdfs: the Document `doc` (set: empty or one)
    up_pc,            \* upload_pdfs: position in the handler
    temp_dir,         \* files in TEMP_DIR: set of [filename, bytes]
    data_dir,         \* files in DATA_DIR: set of [hash, bytes]
    response,         \* upload_pdfs: what the handler returned (set)
    clip_text,        \* argument text of _clip
    clip_max,         \* argument max_chars of _clip
    clip_out,         \* value returned by _clip (set: empty before the call)
    ctx_payload,      \* argument payload of build_llm_context
    ctx_question,     \* argument question of build_llm_context (set)
    ctx_limits,       \* the four max_*_chars arguments of build_llm_context
    ctx_out,          \* value returned by build_llm_context (set)
    self_doc,         \* Document.doc: the pages of the PDF
    _hf_sigs,         \* Document._hf_sigs (set: empty is None)
    hf_computes,      \* calls of _compute_header_footer_signatures so far
    ext_page,         \* the page _extract_payload_text was called on (set)
    ext_out,          \* value returned by _extract_payload_text (set)
    search_query,     \* search: the SearchQuery of the request
    search_ranking,   \* the points of the collection, best match first
    search_response   \* search: what the handler answered (set)

dbVars   == <<documents, pages, nextDocId>>
callVars == <<pc, arg, document, document_exists, result, p, points, ret>>
fpnVars  == <<fpn_page, fpn_total, fpn_out>>
txnVars  == <<txn_documents, txn_pages>>
uploadVars == <<files, file_idx, results, up_doc, up_pc, temp_dir, data_dir,
                response>>
\* What a step of ingest_document other than the embedding leaves alone.
clipVars == <<clip_text, clip_max, clip_out>>
ctxVars == <<ctx_payload, ctx_question, ctx_limits, ctx_out>>
extractVars == <<self_doc, _hf_sigs, hf_computes, ext_page, ext_out>>
helperVars == <<clipVars, ctxVars, extractVars,
                search_query, search_ranking, search_response>>
otherVars == <<fpnVars, model_loads, txnVars, uploadVars, helperVars>>
vars == <<documents, pages, nextDocId, qdrant, faults,
          pc, arg, document, document_exists, result, p, points, ret,
          fpn_page, fpn_total, fpn_out, model_loads, txn_documents, txn_pages,
          files, file_idx, results, up_doc, up_pc, temp_dir, data_dir,
          response, clip_text, clip_max, clip_out,
          ctx_payload, ctx_question, ctx_limits, ctx_out,
          self_doc, _hf_sigs, hf_computes, ext_page, ext_out,
          search_query, search_ranking, search_response>>

\* ------------------------------------------------------------ input files
\* A path is a name and an extension; the bytes are what the file holds.
PdfPaths == {[name |-> "a", ext |-> "pdf"], [name |-> "b", ext |-> "PDF"]}

\* The contents a file may hold: one of every length up to MaxPages, and two
\* of length one that differ in their byte.
Contents == {[i \in 1..n |-> 0] : n \in 1..MaxPages} \cup {<<1>>}

GoodFiles ==
    [path : PdfPaths, kind : {"file"}, readable : {TRUE}, bytes : Contents,
     corrupt : {FALSE}]

BadFiles ==
    { [path |-> [name |-> "a", ext |-> "txt"], kind |-> "file",
       readable |-> TRUE, bytes |-> <<0>>, corrupt |-> FALSE],
      [path |-> [name |-> "a", ext |-> "pdf"], kind |-> "missing",
       readable |-> FALSE, bytes |-> <<>>, corrupt |-> FALSE],
      [path |-> [name |-> "a", ext |-> "pdf"], kind |-> "dir",
       readable |-> TRUE, bytes |-> <<>>, corrupt |-> FALSE],
      [path |-> [name |-> "a", ext |-> "pdf"], kind |-> "file",
       readable |-> TRUE, bytes |-> <<>>, corrupt |-> FALSE],
      [path |-> [name |-> "a", ext |-> "pdf"], kind |-> "file",
       readable |-> FALSE, bytes |-> <<0>>, corrupt |-> FALSE],
      [path |-> [name |-> "a", ext |-> "pdf"], kind |-> "file",
       readable |-> TRUE, bytes |-> <<0>>, corrupt |-> TRUE] }

Files == GoodFiles \cup BadFiles

\* ------------------------------------------------------------- Document
\* str.lower() on the extension.
Lower(ext) == IF ext = "PDF" THEN "pdf" ELSE ext

\* Mutant: the check of the size is missing.
ValidatePathWithoutSize(f) ==
    IF Lower(f.path.ext) # "pdf" THEN "ValueError:not_pdf"
    ELSE IF f.kind = "missing" THEN "FileNotFoundError"
    ELSE IF f.kind # "file" THEN "ValueError:directory"
    ELSE IF ~f.readable THEN "PermissionError"
    ELSE "ok"

\* Document._validate_path: the first failing check, or "ok".
ValidatePath(f) ==
    IF Lower(f.path.ext) # "pdf" THEN "ValueError:not_pdf"
    ELSE IF f.kind = "missing" THEN "FileNotFoundError"
    ELSE IF f.kind # "file" THEN "ValueError:directory"
    ELSE IF Len(f.bytes) = 0 THEN "ValueError:empty"
    ELSE IF ~f.readable THEN "PermissionError"
    ELSE "ok"

\* os.path.abspath / os.path.basename.
AbsPath(path) == <<"cwd", path>>
Basename(abs) == abs[2]

\* hashlib.sha256().update(block): the digest state absorbs the block byte by
\* byte.  The state is the base-3 code of the bytes read so far, which is
\* collision-free, as SHA-256 is taken to be.
RECURSIVE Sha256Update(_, _)
Sha256Update(state, block) ==
    IF block = <<>> THEN state
    ELSE Sha256Update(state * 3 + Head(block) + 1, Tail(block))

\* f.read(ChunkSize) at offset off.
ReadChunk(bytes, off) ==
    SubSeq(bytes, off + 1, IF off + ChunkSize < Len(bytes)
                           THEN off + ChunkSize ELSE Len(bytes))

\* Document._generate_file_hash: read chunk after chunk until b"".
RECURSIVE HashFrom(_, _, _)
HashFrom(bytes, off, state) ==
    LET block == ReadChunk(bytes, off)
    IN  IF block = <<>> THEN state
        ELSE HashFrom(bytes, off + Len(block), Sha256Update(state, block))

GenerateFileHash(bytes) == HashFrom(bytes, 0, 0)

\* fitz page_count: a function of the file's bytes alone (one page per byte).
PageCount(bytes) == Len(bytes)

\* Document.__init__ after validation.
NewDocument(f) ==
    [upload_path |-> AbsPath(f.path),
     hash        |-> GenerateFileHash(f.bytes),
     total_pages |-> PageCount(f.bytes),
     bytes       |-> f.bytes]

\* ------------------------------------------------------------- Database
\* SELECT * FROM documents WHERE doc_hash = h  (fetchone: a row or nothing).
RowsByHash(h) == {r \in documents : r.doc_hash = h}

\* Mutant: the table without the UNIQUE key on doc_hash.
UniqueViolationWithoutKey(h) == FALSE

\* The UNIQUE key on documents.doc_hash refuses a second row of the hash.
UniqueViolation(h) == RowsByHash(h) # {}

\* Mutant: the row is written as already indexed.
NewRowIndexed(id, doc) ==
    [id |-> id, doc_hash |-> doc.hash, filename |-> Basename(doc.upload_path),
     upload_path |-> doc.upload_path, total_pages |-> doc.total_pages,
     indexed_in_qdrant |-> TRUE]

\* The row INSERT INTO documents writes; indexed_in_qdrant DEFAULT FALSE.
NewRow(id, doc) ==
    [id |-> id, doc_hash |-> doc.hash, filename |-> Basename(doc.upload_path),
     upload_path |-> doc.upload_path, total_pages |-> doc.total_pages,
     indexed_in_qdrant |-> FALSE]

\* Document.get_page_content(p) and the rows INSERT INTO pages writes.
PageRows(id, doc) ==
    {[document_id |-> id, page_number |-> i - 1, content |-> doc.bytes[i]]
        : i \in 1..doc.total_pages}

\* Mutant: the UPDATE also rewrites the filename column.
UpdatedPathAndFilename(rows, h, new_path) ==
    {IF r.doc_hash = h
     THEN [r EXCEPT !.upload_path = new_path, !.filename = Basename(new_path)]
     ELSE r : r \in rows}

\* UPDATE documents SET upload_path = new_path WHERE doc_hash = h.
UpdatedPath(rows, h, new_path) ==
    {IF r.doc_hash = h THEN [r EXCEPT !.upload_path = new_path] ELSE r : r \in rows}

\* UPDATE documents SET indexed_in_qdrant = TRUE WHERE doc_hash = h.
MarkedIndexed(rows, h) ==
    {IF r.doc_hash = h THEN [r EXCEPT !.indexed_in_qdrant = TRUE] ELSE r : r \in rows}

\* qdrant upsert: a point replaces the stored point of the same id.
Upserted(store, batch) ==
    LET ids == {batch[i].id : i \in 1..Len(batch)}
    IN  {q \in store : q.id \notin ids} \cup {batch[i] : i \in 1..Len(batch)}

\* Mutant: the branch on document_exists is never taken.
TruthyNever(found) == FALSE

\* Mutant: the branch on document_exists is always taken.
TruthyAlways(found) == TRUE

\* `if document_exists:` -- truth value of the looked-up row.
Truthy(found) == found # {}

\* ------------------------------------------------------------ call state
NoRet == [status |-> "none"]
Raised(step, kind) == [status |-> "error", step |-> step, error |-> kind]

Finished(c) == pc[c] \in {"returned", "raised"}
Active(c) == pc[c] \notin {"idle", "returned", "raised"}

\* The stores are empty and no call was made.
InitIngestion ==
    /\ documents = {}
    /\ pages = {}
    /\ nextDocId = 1
    /\ qdrant = {}
    /\ faults = 0
    /\ pc = [c \in Calls |-> "idle"]
    /\ arg = [c \in Calls |-> CHOOSE f \in BadFiles : f.kind = "missing"]
    /\ document = [c \in Calls |-> {}]
    /\ document_exists = [c \in Calls |-> {}]
    /\ result = [c \in Calls |-> {}]
    /\ p = [c \in Calls |-> 0]
    /\ points = [c \in Calls |-> <<>>]
    /\ ret = [c \in Calls |-> NoRet]
    /\ model_loads = 0
    /\ txn_documents = {}
    /\ txn_pages = {}

\* No upload request was received; TEMP_DIR and DATA_DIR were just made.
InitUpload ==
    /\ files = <<>>
    /\ file_idx = 0
    /\ results = <<>>
    /\ up_doc = {}
    /\ up_pc = "idle"
    /\ temp_dir = {}
    /\ data_dir = {}
    /\ response = {}

\* _clip was not called.
NoClipCall ==
    /\ clip_text = <<>>
    /\ clip_max = 0
    /\ clip_out = {}

\* The defaults of build_llm_context's limits.
DefaultLimits ==
    [max_chars |-> 9000, max_table_chars |-> 3500,
     max_caption_chars |-> 1200, max_text_chars |-> 6500]

\* build_llm_context was not called.
NoContextCall ==
    /\ ctx_payload =
         [text |-> {}, tables_text |-> {}, figure_captions |-> <<>>,
          page_number |-> {}, document_hash |-> {}, table_weirdness |-> {}]
    /\ ctx_question = {}
    /\ ctx_limits = DefaultLimits
    /\ ctx_out = {}

\* No Document was opened for _extract_payload_text.
NoExtractCall ==
    /\ self_doc = <<>>
    /\ _hf_sigs = {}
    /\ hf_computes = 0
    /\ ext_page = {}
    /\ ext_out = {}

\* No search request was received.
NoSearchCall ==
    /\ search_query = [text |-> <<>>, limit |-> {}]
    /\ search_ranking = <<>>
    /\ search_response = {}

\* No helper was called.
InitHelpers ==
    /\ NoClipCall
    /\ NoContextCall
    /\ NoExtractCall
    /\ NoSearchCall

Init ==
    /\ InitIngestion
    /\ InitUpload
    /\ InitHelpers
    /\ fpn_page = 0
    /\ fpn_total = 1
    /\ fpn_out = <<>>

\* ------------------------------------------------- fill_page_number (pure)
\* str(n) for n >= 0: the decimal digits, most significant first.
RECURSIVE Str(_)
Str(n) == IF n < 10 THEN <<n>> ELSE Append(Str(n \div 10), n % 10)

\* Mutant: no padding at all.
ZfillNothing(s, width) == s

\* str.zfill(width) on a string without sign.
RECURSIVE Zfill(_, _)
Zfill(s, width) == IF Len(s) >= width THEN s ELSE Zfill(<<0>> \o s, width)

\* Mutant: the width of the last page index instead of the page count.
TotalDigitsOfLastIndex(total_pages) == Len(Str(total_pages - 1))

\* total_digits = len(str(total_pages))
TotalDigits(total_pages) == Len(Str(total_pages))

\* fill_page_number(page, total_pages); total is {} for None, {T} for T.
fill_page_number(page, total) ==
    IF total = {} THEN Str(page)
    ELSE LET total_pages == CHOOSE t \in total : TRUE
         IN  Zfill(Str(page), TotalDigits(total_pages))

\* ------------------------------------------------------- point identifiers
\* uuid.uuid4(): a fresh random identifier, named after the draw that made
\* it (the n-th draw of call c), so that no two draws give the same value.
Uuid4(c, n) == [version |-> 4, name |-> <<c, n>>]

\* uuid.uuid5(NAMESPACE_DNS, f"{hash}_{fill_page_number(page, total)}") of
\* Document.page_to_qdrant: a function of the name; -1 stands for "_".
PageToQdrantId(hash, page, total_pages) ==
    [version |-> 5, name |-> <<hash, -1>> \o fill_page_number(page, {total_pages})]

\* The identifier ingest_document gives the point of page p (line 62).
PointId(c, doc, page) == Uuid4(c, Len(points[c]))

\* PointStruct(id, vector, payload) built in the loop of ingest_document.
NewPoint(c, page) ==
    LET doc == CHOOSE d \in document[c] : TRUE
        res == CHOOSE r \in result[c] : TRUE
    IN  [id |-> PointId(c, doc, page),
         document_id |-> res.document_id,
         page_number |-> page]

\* IngestionService.multivector(image): ColPali.from_pretrained(model_name) is
\* its first statement, so every call loads the model once more.
Multivector(loads) == loads + 1

\* -------------------------------------------------- ingest_document steps
Doc(c) == CHOOSE d \in document[c] : TRUE

\* The exception leaves ingest_document: the caller gets it.
Raise(c, step, kind) ==
    /\ pc' = [pc EXCEPT ![c] = "raised"]
    /\ ret' = [ret EXCEPT ![c] = Raised(step, kind)]

\* A backend (database server, model, vector store) fails under the step.
Fault(c, step, kind) ==
    /\ faults < MaxFaults
    /\ faults' = faults + 1
    /\ Raise(c, step, kind)

\* document = Document(file_path): validate, hash, open.
Construct(c, f) ==
    /\ arg' = [arg EXCEPT ![c] = f]
    /\ IF ValidatePath(f) # "ok"
       THEN /\ Raise(c, "Document", ValidatePath(f))
            /\ UNCHANGED document
       ELSE IF ~f.corrupt
       THEN /\ document' = [document EXCEPT ![c] = {NewDocument(f)}]
            /\ pc' = [pc EXCEPT ![c] = "lookup"]
            /\ UNCHANGED ret
       ELSE /\ Raise(c, "Document", "fitz.open")
            /\ UNCHANGED document
    /\ UNCHANGED <<dbVars, qdrant, faults, document_exists, result, p, points,
                   otherVars>>

\* One caller, one call at a time, calls numbered in the order they are made.
Call(c, f) ==
    /\ pc[c] = "idle"
    /\ \A d \in Calls : ~Active(d) /\ (d < c => Finished(d))
    /\ Construct(c, f)

\* Callers that do not wait for each other (one connection per caller).
CallConcurrent(c, f) ==
    /\ pc[c] = "idle"
    /\ \A d \in Calls : d < c => pc[d] # "idle"
    /\ Construct(c, f)

\* document_exists = self.db.document_exists(document.hash)
DocumentExists(c) ==
    /\ pc[c] = "lookup"
    /\ \/ /\ document_exists' =
                [document_exists EXCEPT ![c] = RowsByHash(Doc(c).hash)]
          /\ pc' = [pc EXCEPT ![c] = "branch"]
          /\ UNCHANGED <<ret, faults>>
       \/ /\ Fault(c, "document_exists", "MySQLError")
          /\ UNCHANGED document_exists
    /\ UNCHANGED <<dbVars, qdrant, arg, document, result, p, points, otherVars>>

\* if document_exists: update_document_path(...); return {...}
UpdateDocumentPath(c) ==
    /\ pc[c] = "branch"
    /\ Truthy(document_exists[c])
    /\ \/ /\ documents' = UpdatedPath(documents, Doc(c).hash, Doc(c).upload_path)
          /\ pc' = [pc EXCEPT ![c] = "returned"]
          /\ ret' = [ret EXCEPT ![c] =
                        [status |-> "already_exists",
                         document_already_exists |-> document_exists[c]]]
          /\ UNCHANGED faults
       \/ /\ Fault(c, "update_document_path", "MySQLError")
          /\ UNCHANGED documents
    /\ UNCHANGED <<pages, nextDocId, qdrant, arg, document, document_exists,
                   result, p, points, otherVars>>

\* else: result = self.db.insert_document(document)  (one transaction:
\* the row, its pages, commit; rollback and re-raise on any exception)
InsertDocument(c) ==
    /\ pc[c] = "branch"
    /\ ~Truthy(document_exists[c])
    /\ \/ /\ ~UniqueViolation(Doc(c).hash)
          /\ documents' = documents \cup {NewRow(nextDocId, Doc(c))}
          /\ pages' = pages \cup PageRows(nextDocId, Doc(c))
          /\ nextDocId' = nextDocId + 1
          /\ result' = [result EXCEPT ![c] =
                          {[document_id |-> nextDocId,
                            total_pages |-> Doc(c).total_pages]}]
          /\ points' = [points EXCEPT ![c] = <<>>]
          /\ p' = [p EXCEPT ![c] = 0]
          /\ pc' = [pc EXCEPT ![c] = "loop"]
          /\ UNCHANGED <<ret, faults>>
       \/ /\ UniqueViolation(Doc(c).hash)
          /\ Raise(c, "insert_document", "IntegrityError")
          /\ UNCHANGED <<dbVars, result, p, points, faults>>
       \/ /\ Fault(c, "insert_document", "MySQLError")
          /\ UNCHANGED <<dbVars, result, p, points>>
    /\ UNCHANGED <<qdrant, arg, document, document_exists, otherVars>>

\* Loop body up to points.append: load_page, get_pixmap, multivector.
EmbedPage(c) ==
    /\ pc[c] = "loop"
    /\ p[c] < Doc(c).total_pages
    /\ \/ /\ points' = [points EXCEPT ![c] = Append(@, NewPoint(c, p[c]))]
          /\ model_loads' = Multivector(model_loads)
          /\ pc' = [pc EXCEPT ![c] = "upsert"]
          /\ UNCHANGED <<ret, faults>>
       \/ /\ Fault(c, "embed", "RuntimeError")
          /\ UNCHANGED <<points, model_loads>>
    /\ UNCHANGED <<dbVars, qdrant, arg, document, document_exists, result, p,
                   fpnVars, txnVars, uploadVars, helperVars>>

\* Loop body, last statement: upsert(collection_name, points=points).
Upsert(c) ==
    /\ pc[c] = "upsert"
    /\ \/ /\ qdrant' = Upserted(qdrant, points[c])
          /\ p' = [p EXCEPT ![c] = @ + 1]
          /\ pc' = [pc EXCEPT ![c] = "loop"]
          /\ UNCHANGED <<ret, faults>>
       \/ /\ Fault(c, "upsert", "QdrantError")
          /\ UNCHANGED <<qdrant, p>>
    /\ UNCHANGED <<dbVars, arg, document, document_exists, result, points,
                   otherVars>>

\* After the loop: return {"message": "Document ingested successfully.", ...}
Return(c) ==
    /\ pc[c] = "loop"
    /\ p[c] = Doc(c).total_pages
    /\ pc' = [pc EXCEPT ![c] = "returned"]
    /\ ret' = [ret EXCEPT ![c] =
                  [status |-> "ingested",
                   document_id |-> (CHOOSE r \in result[c] : TRUE).document_id,
                   total_pages |-> (CHOOSE r \in result[c] : TRUE).total_pages,
                   document_already_exists |-> document_exists[c]]]
    /\ UNCHANGED <<dbVars, qdrant, faults, arg, document, document_exists,
                   result, p, points, otherVars>>

\* Database.mark_document_indexed(doc_hash), called by a client of Database.
MarkDocumentIndexed(h) ==
    /\ \E r \in documents : r.doc_hash = h /\ ~r.indexed_in_qdrant
    /\ documents' = MarkedIndexed(documents, h)
    /\ UNCHANGED <<pages, nextDocId, qdrant, faults, callVars, otherVars>>

Step(c) ==
    \/ DocumentExists(c)
    \/ UpdateDocumentPath(c)
    \/ InsertDocument(c)
    \/ EmbedPage(c)
    \/ Upsert(c)
    \/ Return(c)

Next == \E c \in Calls : (\E f \in Files : Call(c, f)) \/ Step(c)

Spec == Init /\ [][Next]_vars

\* Callers that ingest at the same time.
NextConcurrent ==
    \E c \in Calls : (\E f \in Files : CallConcurrent(c, f)) \/ Step(c)

SpecConcurrent == Init /\ [][NextConcurrent]_vars

\* The ingestion with a client that also uses Database.mark_document_indexed.
NextIndexed ==
    \/ \E c \in Calls : (\E f \in Files : Call(c, f)) \/ Step(c)
    \/ \E h \in {r.doc_hash : r \in documents} : MarkDocumentIndexed(h)

SpecIndexed == Init /\ [][NextIndexed]_vars

\* --------------------------------------- insert_document, by statement
\* Mutant: the except clause without the rollback.
RolledBackNothing(txn) == txn

\* self.mariadb_connection.rollback(): the open transaction's rows are gone.
RolledBack(txn) == {}

\* The id the INSERT INTO documents of this call was given (cursor.lastrowid).
LastRowId(c) == (CHOOSE r \in txn_documents : r.doc_hash = Doc(c).hash).id

\* except Exception as e: rollback(); logging.error(...); raise e
InsertFailure(c, kind) ==
    /\ txn_documents' = RolledBack(txn_documents)
    /\ txn_pages' = RolledBack(txn_pages)
    /\ Fault(c, "insert_document", kind)

\* cursor.execute(INSERT INTO documents ...); document_id = cursor.lastrowid.
\* The row is in the connection's open transaction, not yet committed.  The
\* AUTO_INCREMENT value it took is not given back by a rollback.
InsertDocumentRow(c) ==
    /\ pc[c] = "branch"
    /\ ~Truthy(document_exists[c])
    /\ \/ /\ ~UniqueViolation(Doc(c).hash)
          /\ txn_documents' = txn_documents \cup {NewRow(nextDocId, Doc(c))}
          /\ nextDocId' = nextDocId + 1
          /\ p' = [p EXCEPT ![c] = 0]
          /\ pc' = [pc EXCEPT ![c] = "insert_pages"]
          /\ UNCHANGED <<txn_pages, ret, faults>>
       \/ /\ UniqueViolation(Doc(c).hash)
          /\ txn_documents' = RolledBack(txn_documents)
          /\ txn_pages' = RolledBack(txn_pages)
          /\ Raise(c, "insert_document", "IntegrityError")
          /\ UNCHANGED <<nextDocId, p, faults>>
       \/ /\ InsertFailure(c, "MySQLError")
          /\ UNCHANGED <<nextDocId, p>>
    /\ UNCHANGED <<documents, pages, qdrant, arg, document, document_exists,
                   result, points, fpnVars, model_loads, uploadVars, helperVars>>

\* for p in range(total_pages): cursor.execute(INSERT INTO pages ...)
InsertPageRow(c) ==
    /\ pc[c] = "insert_pages"
    /\ p[c] < Doc(c).total_pages
    /\ \/ /\ txn_pages' = txn_pages \cup
                {[document_id |-> LastRowId(c), page_number |-> p[c],
                  content |-> Doc(c).bytes[p[c] + 1]]}
          /\ p' = [p EXCEPT ![c] = @ + 1]
          /\ UNCHANGED <<txn_documents, pc, ret, faults>>
       \/ /\ InsertFailure(c, "MySQLError")
          /\ UNCHANGED p
    /\ UNCHANGED <<dbVars, qdrant, arg, document, document_exists, result,
                   points, fpnVars, model_loads, uploadVars, helperVars>>

\* self.mariadb_connection.commit(); return {"document_id": ..., ...}
Commit(c) ==
    /\ pc[c] = "insert_pages"
    /\ p[c] = Doc(c).total_pages
    /\ \/ /\ documents' = documents \cup txn_documents
          /\ pages' = pages \cup txn_pages
          /\ txn_documents' = {}
          /\ txn_pages' = {}
          /\ result' = [result EXCEPT ![c] =
                          {[document_id |-> LastRowId(c),
                            total_pages |-> Doc(c).total_pages]}]
          /\ points' = [points EXCEPT ![c] = <<>>]
          /\ p' = [p EXCEPT ![c] = 0]
          /\ pc' = [pc EXCEPT ![c] = "loop"]
          /\ UNCHANGED <<ret, faults>>
       \/ /\ InsertFailure(c, "MySQLError")
          /\ UNCHANGED <<documents, pages, result, points, p>>
    /\ UNCHANGED <<nextDocId, qdrant, arg, document, document_exists,
                   fpnVars, model_loads, uploadVars, helperVars>>

StepTransaction(c) ==
    \/ DocumentExists(c)
    \/ UpdateDocumentPath(c)
    \/ InsertDocumentRow(c)
    \/ InsertPageRow(c)
    \/ Commit(c)
    \/ EmbedPage(c)
    \/ Upsert(c)
    \/ Return(c)

\* The ingestion of one caller, with insert_document statement by statement
\* as its own connection sees it.
NextTransaction ==
    \E c \in Calls : (\E f \in Files : Call(c, f)) \/ StepTransaction(c)

SpecTransaction == Init /\ [][NextTransaction]_vars

\* ------------------------------------------------------------ upload_pdfs
\* UploadFile.filename is a name or None; NoFilename is the falsy one.
NoFilename == [name |-> "", ext |-> ""]

\* The files a client may upload: PDFs under two names, and the ones the
\* handler or Document refuses (not a PDF name, no name, empty, not a PDF
\* inside).
UploadFiles ==
    [filename : PdfPaths, bytes : Contents, corrupt : {FALSE}]
    \cup { [filename |-> [name |-> "a", ext |-> "txt"], bytes |-> <<0>>,
            corrupt |-> FALSE],
           [filename |-> NoFilename, bytes |-> <<0>>, corrupt |-> FALSE],
           [filename |-> [name |-> "a", ext |-> "pdf"], bytes |-> <<>>,
            corrupt |-> FALSE],
           [filename |-> [name |-> "a", ext |-> "pdf"], bytes |-> <<0>>,
            corrupt |-> TRUE] }

\* The value of `files` in a request: one file at least.
Batches == UNION {[1..n -> UploadFiles] : n \in 1..MaxBatch}

\* `not file.filename or not file.filename.lower().endswith(".pdf")`, negated.
IsPdfName(filename) == filename # NoFilename /\ Lower(filename.ext) = "pdf"

\* temp_path.open("wb") and shutil.copyfileobj: the file at TEMP_DIR/filename
\* is created or truncated and holds the uploaded bytes.
Written(dir, f) ==
    {t \in dir : t.filename # f.filename} \cup {f}

\* os.remove(temp_path), guarded by temp_path.exists() or known to exist.
Removed(dir, filename) == {t \in dir : t.filename # filename}

\* The file Document finds at str(temp_path).
FileAt(filename) ==
    LET t == CHOOSE t \in temp_dir : t.filename = filename
    IN  [path |-> filename, kind |-> "file", readable |-> TRUE,
         bytes |-> t.bytes, corrupt |-> t.corrupt]

\* final_path.exists() for final_path = DATA_DIR / f"{file_hash}.pdf".
FinalPathExists(file_hash) == \E d \in data_dir : d.hash = file_hash

\* shutil.move(temp_path, final_path): the bytes are now at the final path.
Moved(dir, doc) == dir \cup {[hash |-> doc.hash, bytes |-> doc.bytes]}

\* Mutant: an error entry ends the loop over the files.
ContinueAbort(i, n) == n + 1

\* `continue`, and the end of the loop body after `except`: the next file.
Continue(i, n) == i + 1

\* The entry appended for a file that was refused or raised.
ErrorEntry(filename, error) == [filename |-> filename, error |-> error]

File == files[file_idx]
InLoop == file_idx \in 1..Len(files)

\* except Exception as e: remove the temporary file if it is there, append
\* the error entry, go on with the next file.
Except(e) ==
    /\ temp_dir' = Removed(temp_dir, File.filename)
    /\ results' = Append(results, ErrorEntry(File.filename, e))
    /\ file_idx' = Continue(file_idx, Len(files))
    /\ up_doc' = {}
    /\ up_pc' = "check"

\* ColPaliModel.__init__: ColPali.from_pretrained, once per instance.
ColPaliModel(loads) == loads + 1

\* lifespan, up to the yield: the model and the database are put into
\* app_resources and the server starts to take requests.  (The server is not
\* the process that calls ingest_document with a path.)
Lifespan ==
    /\ up_pc = "idle"
    /\ \A c \in Calls : pc[c] = "idle"
    /\ model_loads' = ColPaliModel(model_loads)
    /\ up_pc' = "serving"
    /\ UNCHANGED <<files, file_idx, results, up_doc, temp_dir, data_dir,
                   response>>
    /\ UNCHANGED <<dbVars, qdrant, faults, callVars, fpnVars, txnVars,
                   helperVars>>

\* The request arrives: results = [], model and service are taken from
\* app_resources, the loop starts.
UploadPdfs(fs) ==
    /\ up_pc = "serving"
    /\ files' = fs
    /\ file_idx' = 1
    /\ results' = <<>>
    /\ up_pc' = "check"
    /\ UNCHANGED <<up_doc, temp_dir, data_dir, response>>
    /\ UNCHANGED <<dbVars, qdrant, faults, callVars, fpnVars, model_loads,
                   txnVars, helperVars>>

\* if not file.filename or not ...endswith(".pdf"): append error; continue
CheckFilename ==
    /\ up_pc = "check"
    /\ InLoop
    /\ IF IsPdfName(File.filename)
       THEN /\ up_pc' = "copy"
            /\ UNCHANGED <<results, file_idx>>
       ELSE /\ results' = Append(results, ErrorEntry(File.filename, "not_pdf"))
            /\ file_idx' = Continue(file_idx, Len(files))
            /\ UNCHANGED up_pc
    /\ UNCHANGED <<files, up_doc, temp_dir, data_dir, response>>
    /\ UNCHANGED <<dbVars, qdrant, faults, callVars, fpnVars, model_loads,
                   txnVars, helperVars>>

\* with temp_path.open("wb") as buffer: shutil.copyfileobj(file.file, buffer)
CopyUpload ==
    /\ up_pc = "copy"
    /\ \/ /\ temp_dir' = Written(temp_dir, File)
          /\ up_pc' = "validate"
          /\ UNCHANGED <<results, file_idx, up_doc, faults>>
       \/ /\ faults < MaxFaults
          /\ faults' = faults + 1
          /\ Except("OSError")
    /\ UNCHANGED <<files, data_dir, response>>
    /\ UNCHANGED <<dbVars, qdrant, callVars, fpnVars, model_loads, txnVars,
                   helperVars>>

\* Document(str(temp_path)): self._validate_path(upload_path)
ValidateUpload ==
    /\ up_pc = "validate"
    /\ IF ValidatePath(FileAt(File.filename)) = "ok"
       THEN /\ up_pc' = "hash"
            /\ UNCHANGED <<results, file_idx, up_doc, temp_dir>>
       ELSE Except(ValidatePath(FileAt(File.filename)))
    /\ UNCHANGED <<files, data_dir, response>>
    /\ UNCHANGED <<dbVars, qdrant, faults, callVars, fpnVars, model_loads,
                   txnVars, helperVars>>

\* Document.__init__ after validation: the hash, then fitz.open.
HashAndOpen ==
    /\ up_pc = "hash"
    /\ IF FileAt(File.filename).corrupt
       THEN Except("fitz.open")
       ELSE /\ up_doc' = {NewDocument(FileAt(File.filename))}
            /\ up_pc' = "store"
            /\ UNCHANGED <<results, file_idx, temp_dir>>
    /\ UNCHANGED <<files, data_dir, response>>
    /\ UNCHANGED <<dbVars, qdrant, faults, callVars, fpnVars, model_loads,
                   txnVars, helperVars>>

\* if final_path.exists(): os.remove(temp_path)
\* else: shutil.move(str(temp_path), str(final_path))
StoreFile ==
    /\ up_pc = "store"
    /\ LET doc == CHOOSE d \in up_doc : TRUE
       IN  \/ /\ temp_dir' = Removed(temp_dir, File.filename)
              /\ data_dir' = IF FinalPathExists(doc.hash) THEN data_dir
                             ELSE Moved(data_dir, doc)
              /\ up_pc' = "ingest"
              /\ UNCHANGED <<results, file_idx, up_doc, faults>>
           \/ /\ faults < MaxFaults
              /\ faults' = faults + 1
              /\ Except("OSError")
              /\ UNCHANGED data_dir
    /\ UNCHANGED <<files, response>>
    /\ UNCHANGED <<dbVars, qdrant, callVars, fpnVars, model_loads, txnVars,
                   helperVars>>

\* result = ingestion_service.ingest_document(doc, model=model): the method
\* is ingest_document(self, file_path), so the call raises TypeError
\* (unexpected keyword argument 'model') before its body runs.
CallIngestDocument ==
    /\ up_pc = "ingest"
    /\ Except("TypeError")
    /\ UNCHANGED <<files, data_dir, response>>
    /\ UNCHANGED <<dbVars, qdrant, faults, callVars, fpnVars, model_loads,
                   txnVars, helperVars>>

\* After the last file: return {"total_processing_time": ..., "results": results}
ReturnResponse ==
    /\ up_pc = "check"
    /\ ~InLoop
    /\ response' = {[results |-> results]}
    /\ up_pc' = "done"
    /\ UNCHANGED <<files, file_idx, results, up_doc, temp_dir, data_dir>>
    /\ UNCHANGED <<dbVars, qdrant, faults, callVars, fpnVars, model_loads,
                   txnVars, helperVars>>

UploadStep ==
    \/ CheckFilename
    \/ CopyUpload
    \/ ValidateUpload
    \/ HashAndOpen
    \/ StoreFile
    \/ CallIngestDocument
    \/ ReturnResponse

\* ingest_document called with a path by the command line of ingestion.py,
\* a process that serves no request.
CommandLine(c, f) ==
    /\ up_pc = "idle"
    /\ Call(c, f)

\* The process is the server, which handles an upload request, or the
\* command line of ingestion.py, which calls ingest_document with a path.
NextUpload ==
    \/ Lifespan
    \/ \E fs \in Batches : UploadPdfs(fs)
    \/ UploadStep
    \/ \E c \in Calls : (\E f \in Files : CommandLine(c, f)) \/ Step(c)

SpecUpload == Init /\ [][NextUpload]_vars

\* -------------------------------------------- calls of fill_page_number
TotalArgs == {{}} \cup {{t} : t \in 1..MaxTotal}

InitFill ==
    /\ InitIngestion
    /\ InitUpload
    /\ InitHelpers
    /\ fpn_page \in 0..MaxTotal
    /\ fpn_total \in TotalArgs
    /\ fpn_out = <<>>

\* out = fill_page_number(page, total_pages)
FillPageNumber ==
    /\ fpn_out = <<>>
    /\ fpn_out' = fill_page_number(fpn_page, fpn_total)
    /\ UNCHANGED <<fpn_page, fpn_total, dbVars, qdrant, faults, callVars,
                   model_loads, txnVars, uploadVars, helperVars>>

\* The caller goes on to the next page of the same document.
NextPageArg ==
    /\ fpn_out # <<>>
    /\ fpn_page < MaxTotal
    /\ fpn_page' = fpn_page + 1
    /\ fpn_out' = <<>>
    /\ UNCHANGED <<fpn_total, dbVars, qdrant, faults, callVars,
                   model_loads, txnVars, uploadVars, helperVars>>

\* The caller goes on to another document (another total_pages).
NextTotalArg ==
    /\ fpn_out # <<>>
    /\ \E t \in TotalArgs :
         /\ t # {} /\ fpn_total # {}
         /\ (CHOOSE x \in t : TRUE) = (CHOOSE x \in fpn_total : TRUE) + 1
         /\ fpn_total' = t
    /\ fpn_page' = 0
    /\ fpn_out' = <<>>
    /\ UNCHANGED <<dbVars, qdrant, faults, callVars,
                   model_loads, txnVars, uploadVars, helperVars>>

NextFill == FillPageNumber \/ NextPageArg \/ NextTotalArg

SpecFill == InitFill /\ [][NextFill]_vars


\* ------------------------------------------------------- str (Python)
\* A string is the sequence of its characters; a character is a string of
\* TLA+ ("x", " ", "\n", ...; "ellipsis" is the one character U+2026).
Whitespace == {" ", "\n", "\t"}
Ellipsis == "ellipsis"

\* str.lstrip() / str.rstrip() / str.strip()
RECURSIVE LStrip(_)
LStrip(str) ==
    IF str # <<>> /\ Head(str) \in Whitespace THEN LStrip(Tail(str)) ELSE str

RECURSIVE RStrip(_)
RStrip(str) ==
    IF str # <<>> /\ str[Len(str)] \in Whitespace
    THEN RStrip(SubSeq(str, 1, Len(str) - 1))
    ELSE str

Strip(str) == RStrip(LStrip(str))

\* Mutant: str[:n + 1]
PrefixOneMore(str, n) ==
    SubSeq(str, 1, IF n + 1 < Len(str) THEN n + 1 ELSE Len(str))

\* str[:n] for n >= 0.
Prefix(str, n) == SubSeq(str, 1, IF n < Len(str) THEN n ELSE Len(str))

\* sub occurs in str at index i (counted from 0).
OccursAt(str, sub, i) ==
    /\ i >= 0
    /\ i + Len(sub) <= Len(str)
    /\ SubSeq(str, i + 1, i + Len(sub)) = sub

\* Mutant: rfind without its end argument.
RFindWithoutEnd(str, sub, start, end) ==
    LET found == {i \in start..(Len(str) - Len(sub)) : OccursAt(str, sub, i)}
    IN  IF found = {} THEN -1 ELSE CHOOSE i \in found : \A j \in found : j <= i

\* str.rfind(sub, start, end): the highest index at which sub occurs within
\* str[start:end], or -1.
RFind(str, sub, start, end) ==
    LET stop == IF end < Len(str) THEN end ELSE Len(str)
        found == {i \in start..(stop - Len(sub)) : OccursAt(str, sub, i)}
    IN  IF found = {} THEN -1 ELSE CHOOSE i \in found : \A j \in found : j <= i

\* str.find(sub): the lowest index at which sub occurs in str, or -1.
Find(str, sub) ==
    LET found == {i \in 0..(Len(str) - Len(sub)) : OccursAt(str, sub, i)}
    IN  IF found = {} THEN -1 ELSE CHOOSE i \in found : \A j \in found : i <= j

\* ------------------------------------------------- build_llm_context._clip
\* _clip(text, max_chars)
_clip(text, max_chars) ==
    LET stripped == Strip(text)
        \* int(max_chars * 0.6)
        sixty == (max_chars * 6) \div 10
        cut1 == RFind(stripped, <<"\n">>, 0, max_chars)
        cut2 == IF cut1 < sixty
                THEN RFind(stripped, <<".", " ">>, 0, max_chars)
                ELSE cut1
        cut  == IF cut2 < sixty THEN max_chars ELSE cut2
    IN  IF Len(stripped) <= max_chars THEN stripped
        ELSE RStrip(Prefix(stripped, cut)) \o <<Ellipsis>>

\* The texts and budgets _clip is called with.
InitClip ==
    /\ InitIngestion
    /\ InitUpload
    /\ fpn_page = 0
    /\ fpn_total = 1
    /\ fpn_out = <<>>
    /\ clip_text \in
         UNION {[1..n -> {"x", " ", "\n", "."}] : n \in 0..MaxTextLen}
    /\ clip_max \in 0..MaxTextLen
    /\ clip_out = {}
    /\ NoContextCall
    /\ NoExtractCall
    /\ NoSearchCall

\* out = _clip(text, max_chars)
Clip ==
    /\ clip_out = {}
    /\ clip_out' = {_clip(clip_text, clip_max)}
    /\ UNCHANGED <<clip_text, clip_max>>
    /\ UNCHANGED <<dbVars, qdrant, faults, callVars, fpnVars, model_loads,
                   txnVars, uploadVars, ctxVars, extractVars,
                   search_query, search_ranking, search_response>>

SpecClip == InitClip /\ [][Clip]_vars

\* ------------------------------------------------------ re (Python)
\* str.lower(), for the letters A-Z and the accented vowels; re.IGNORECASE
\* compares the lower-cased characters.
StrLower(str) ==
    LET upper == <<"A", "B", "C", "D", "E", "F", "G", "H", "I", "J", "K", "L",
                   "M", "N", "O", "P", "Q", "R", "S", "T", "U", "V", "W", "X",
                   "Y", "Z", "Aacute", "Eacute", "Iacute", "Oacute",
                   "Uacute">>
        lower == <<"a", "b", "c", "d", "e", "f", "g", "h", "i", "j", "k", "l",
                   "m", "n", "o", "p", "q", "r", "s", "t", "u", "v", "w", "x",
                   "y", "z", "aacute", "eacute", "iacute", "oacute",
                   "uacute">>
    IN  [i \in 1..Len(str) |->
            IF \E k \in DOMAIN upper : upper[k] = str[i]
            THEN lower[CHOOSE k \in DOMAIN upper : upper[k] = str[i]]
            ELSE str[i]]

\* \d, and the digits as characters ("0" is DigitChars[1]).
DigitChars == <<"0", "1", "2", "3", "4", "5", "6", "7", "8", "9">>
IsDigit(ch) == \E i \in DOMAIN DigitChars : DigitChars[i] = ch

\* \w: letters (accented ones included), digits and "_"; the characters
\* below are the ones of the model's alphabet that are not.
IsWordChar(ch) ==
    ch \notin Whitespace \cup
        {".", ",", ":", ";", "/", "|", "-", "?", "!", "(", ")", "[", "]",
         "%", "$", "euro", "endash", Ellipsis}

\* \b at index i of str (between str[i-1] and str[i], counted from 0).
WordBoundary(str, i) ==
    (i > 0 /\ IsWordChar(str[i])) # (i < Len(str) /\ IsWordChar(str[i + 1]))

\* The pattern (a sequence of characters and \d) matches str at index i.
MatchesAt(str, pat, i) ==
    /\ i >= 0
    /\ i + Len(pat) <= Len(str)
    /\ \A k \in 1..Len(pat) :
          IF pat[k] = "\\d" THEN IsDigit(str[i + k]) ELSE str[i + k] = pat[k]

\* re.compile(r"\b(alt1|alt2|...)\b", re.IGNORECASE).search(str)
SearchWord(alternatives, str) ==
    LET folded == StrLower(str)
    IN  \E i \in 0..Len(str) :
            /\ WordBoundary(str, i)
            /\ \E pat \in alternatives :
                   /\ MatchesAt(folded, pat, i)
                   /\ WordBoundary(str, i + Len(pat))

\* ---------------------------------------------- build_llm_context (pure)
\* The alternatives of _NUMERIC_HINTS, _FIGURE_HINTS and _TABLE_HINTS, with
\* optional characters and character classes written out.
_NUMERIC_HINTS == {
    <<"p", "r", "e", "s", "u", "p", "u", "e", "s", "t", "o">>,
    <<"b", "u", "d", "g", "e", "t">>, <<"c", "o", "s", "t", "e">>, <<"c", "o",
        "s", "t", "o">>, <<"c", "o", "s", "t">>,
    <<"i", "m", "p", "o", "r", "t", "e">>, <<"a", "m", "o", "u", "n", "t">>,
        <<"t", "o", "t", "a", "l">>,
    <<"s", "u", "b", "t", "o", "t", "a", "l">>,
    <<"e", "u", "r", "o">>, <<"e", "u", "r", "o", "s">>, <<"euro">>, <<"u",
        "s", "d">>, <<"$">>,
    <<"p", "r", "e", "c", "i", "o">>, <<"p", "r", "i", "c", "e">>, <<"t", "a",
        "r", "i", "f", "a">>, <<"f", "e", "e">>,
    <<"n", "u", "m", "e", "r", "o">>, <<"n", "uacute", "m", "e", "r", "o">>,
        <<"n", "u", "m", "b", "e", "r">>,
    <<"v", "a", "l", "o", "r">>, <<"v", "a", "l", "u", "e">>,
    <<"p", "o", "r", "c", "e", "n", "t", "a", "j", "e">>, <<"p", "e", "r",
        "c", "e", "n", "t">>, <<"%">>,
    <<"m", "e", "d", "i", "a">>, <<"a", "v", "e", "r", "a", "g", "e">>, <<"p",
        "r", "o", "m", "e", "d", "i", "o">>,
    <<"r", "a", "t", "i", "o">>, <<"t", "a", "s", "a">>, <<"r", "a", "t",
        "e">>,
    <<"i", "n", "c", "r", "e", "m", "e", "n", "t", "o">>, <<"d", "e", "c",
        "r", "e", "m", "e", "n", "t", "o">>,
    <<"v", "a", "r", "i", "a", "c", "i", "o", "n">>, <<"v", "a", "r", "i",
        "a", "c", "i", "oacute", "n">>, <<"c", "h", "a", "n", "g", "e">>,
    <<"c", "o", "m", "p", "a", "r", "a", "r">>, <<"c", "o", "m", "p", "a",
        "r", "e">>,
    <<"2", "0", "2", "\\d">>, <<"2", "0", "3", "\\d">>}

_FIGURE_HINTS == {
    <<"f", "i", "g", "u", "r", "a">>, <<"f", "i", "g", ".">>, <<"f", "i", "g",
        "u", "r", "e">>,
    <<"g", "r", "a", "f", "i", "c", "o">>, <<"g", "r", "aacute", "f", "i",
        "c", "o">>, <<"c", "h", "a", "r", "t">>, <<"p", "l", "o", "t">>,
    <<"i", "m", "a", "g", "e", "n">>, <<"i", "m", "a", "g", "e">>,
    <<"c", "a", "p", "t", "i", "o", "n">>, <<"c", "a", "p", "t", "i", "o",
        "n">>, <<"c", "a", "p", "t", "i", "oacute", "n">>,
    <<"d", "i", "a", "g", "r", "a", "m", "a">>, <<"d", "i", "a", "g", "r",
        "a", "m">>,
    <<"e", "s", "q", "u", "e", "m", "a">>, <<"s", "c", "h", "e", "m", "a">>}

_TABLE_HINTS == {
    <<"t", "a", "b", "l", "a">>, <<"t", "a", "b", "l", "e">>,
    <<"c", "u", "a", "d", "r", "o">>,
    <<"m", "a", "t", "r", "i", "z">>, <<"m", "a", "t", "r", "i", "x">>}

\* _HAS_NUMBER.search(q)
_HAS_NUMBER(q) == \E i \in 1..Len(q) : IsDigit(q[i])

_is_numeric_question(q) == SearchWord(_NUMERIC_HINTS, q) \/ _HAS_NUMBER(q)

_wants_figures(q) == SearchWord(_FIGURE_HINTS, q)

_wants_tables(q) == SearchWord(_TABLE_HINTS, q) \/ _is_numeric_question(q)

\* `x or ""` for x a str or None (None is the empty set).
OrEmpty(x) == IF x = {} THEN <<>> ELSE CHOOSE s \in x : TRUE

\* sep.join(strs)
RECURSIVE Join(_, _)
Join(strs, sep) ==
    IF strs = <<>> THEN <<>>
    ELSE IF Len(strs) = 1 THEN strs[1]
    ELSE strs[1] \o sep \o Join(Tail(strs), sep)

\* [c.strip() for c in captions_list if str(c).strip()]
RECURSIVE StrippedCaptions(_)
StrippedCaptions(captions_list) ==
    IF captions_list = <<>> THEN <<>>
    ELSE IF Strip(Head(captions_list)) = <<>>
         THEN StrippedCaptions(Tail(captions_list))
         ELSE <<Strip(Head(captions_list))>>
              \o StrippedCaptions(Tail(captions_list))

\* isinstance(weird, (int, float)) and weird >= 0.6; a score is a record
\* [kind, tenths] (tenths: the value in units of 0.1), None the empty set.
ForcesTables(weird) ==
    \E w \in weird : w.kind \in {"int", "float"} /\ w.tenths >= 6

LabelTables == <<"T", "A", "B", "L", "A", "S", ":", "\n">>
LabelTablesLow == <<"T", "A", "B", "L", "A", "S", " ", "(", "b", "a", "j",
    "a", " ", "p", "r", "i", "o", "r", "i", "d", "a", "d", ")", ":", "\n">>
LabelCaptions == <<"F", "I", "G", "U", "R", "A", "S", " ", "/", " ", "C", "A",
    "P", "T", "I", "O", "N", "S", ":", "\n">>
LabelText == <<"T", "E", "X", "T", "O", ":", "\n">>
SectionSeparator == <<"\n", "\n", "-", "-", "-", "\n", "\n">>

\* The header "[Página: N | Doc: hash[:12]]", as a list of zero or one
\* section.
Header(page_no, doc_hash) ==
    LET digits == Str(CHOOSE n \in page_no : TRUE)
        meta_bits ==
            (IF page_no # {}
             THEN <<<<"P", "aacute", "g", "i", "n", "a", ":", " ">>
                    \o [i \in DOMAIN digits |-> DigitChars[digits[i] + 1]]>>
             ELSE <<>>)
            \o (IF OrEmpty(doc_hash) # <<>>
                THEN <<<<"D", "o", "c", ":",
                    " ">> \o Prefix(OrEmpty(doc_hash), 12)>>
                ELSE <<>>)
    IN  IF meta_bits # <<>>
        THEN <<<<"[">> \o Join(meta_bits, <<" ", "|", " ">>) \o <<"]">>>>
        ELSE <<>>

\* `if s: sections.append(label + clipped)`
Section(label, source, clipped) ==
    IF source # <<>> THEN <<label \o clipped>> ELSE <<>>

\* Mutant: the figure branch is taken whenever figures are wanted.
SectionsFiguresFirst(wants_tables, wants_figures, tables, captions, text) ==
    LET tab == Section(LabelTables, tables.source, tables.clipped)
        low == Section(LabelTablesLow, tables.source, tables.clipped)
        cap == Section(LabelCaptions, captions.source, captions.clipped)
        txt == Section(LabelText, text.source, text.clipped)
    IN  IF wants_figures THEN cap \o txt \o low
        ELSE IF wants_tables THEN tab \o cap \o txt
        ELSE txt \o cap \o tab

\* The content sections in the order of the intent (each argument is a
\* record [source, clipped]).
Sections(wants_tables, wants_figures, tables, captions, text) ==
    LET tab == Section(LabelTables, tables.source, tables.clipped)
        low == Section(LabelTablesLow, tables.source, tables.clipped)
        cap == Section(LabelCaptions, captions.source, captions.clipped)
        txt == Section(LabelText, text.source, text.clipped)
    IN  IF wants_figures /\ ~wants_tables THEN cap \o txt \o low
        ELSE IF wants_tables THEN tab \o cap \o txt
        ELSE txt \o cap \o tab

\* [s for s in sections if s.strip()]
RECURSIVE NonBlank(_)
NonBlank(sections) ==
    IF sections = <<>> THEN <<>>
    ELSE IF Strip(Head(sections)) = <<>> THEN NonBlank(Tail(sections))
    ELSE <<Head(sections)>> \o NonBlank(Tail(sections))

\* build_llm_context(payload, question, max_chars, max_table_chars,
\*                   max_caption_chars, max_text_chars)
build_llm_context(payload, question, max_chars, max_table_chars, max_caption_chars, max_text_chars) ==
    LET q == Strip(OrEmpty(question))
        text == Strip(OrEmpty(payload.text))
        tables_text == Strip(OrEmpty(payload.tables_text))
        captions ==
            Strip(Join(StrippedCaptions(payload.figure_captions), <<"\n">>))
        wants_tables ==
            _wants_tables(q) \/ ForcesTables(payload.table_weirdness)
        wants_figures == _wants_figures(q)
        sections ==
            Header(payload.page_number, payload.document_hash)
            \o Sections(wants_tables, wants_figures,
                  [source |-> tables_text,
                   clipped |-> _clip(tables_text, max_table_chars)],
                  [source |-> captions,
                   clipped |-> _clip(captions, max_caption_chars)],
                  [source |-> text,
                   clipped |-> _clip(text, max_text_chars)])
        context == Strip(Join(NonBlank(sections), SectionSeparator))
    IN  _clip(context, max_chars)

\* The payloads, questions and limits build_llm_context is called with.
InitContext ==
    /\ InitIngestion
    /\ InitUpload
    /\ NoClipCall
    /\ NoExtractCall
    /\ NoSearchCall
    /\ fpn_page = 0
    /\ fpn_total = 1
    /\ fpn_out = <<>>
    /\ ctx_payload \in
         [text : {{},
              {<<"x", " ", "y">>},
              {<<"U", "n", "o", ".", " ", "D", "o", "s", "\n", "t", "r", "e",
                  "s", ".">>}},
          tables_text : {{},
              {<<"a", " ", "|", " ", "b">>},
              {<<"a", " ", "|", " ", "b", "\n", "c", " ", "|", " ", "d">>}},
          figure_captions : {<<>>,
              <<<<"F", "i", "g", ".", " ", "A">>>>,
              <<<<" ">>, <<"F", "i", "g", ".", " ", "A", " ">>, <<"F", "i",
                  "g", ".", " ", "B">>>>},
          page_number : {{}, {0}, {12}},
          document_hash : {{}, {<<>>},
              {<<"0", "1", "2", "3", "4", "5", "6", "7", "8", "9", "a", "b",
                  "c", "d", "e", "f">>}},
          table_weirdness :
              {{}, {[kind |-> "float", tenths |-> 5]},
               {[kind |-> "float", tenths |-> 6]},
               {[kind |-> "int", tenths |-> 10]},
               {[kind |-> "str", tenths |-> 9]}}]
    /\ ctx_question \in {{},
         {<<"p", "r", "e", "s", "u", "p", "u", "e", "s", "t", "o", " ", "t",
             "o", "t", "a", "l", " ", "2", "0", "2", "4">>},
         {<<"p", "r", "e", "s", "u", "p", "u", "e", "s", "t", "o", "s">>},
         {<<"G", "R", "A", "F", "I", "C", "O">>},
         {<<"F", "i", "g", "u", "r", "a", " ", "3">>},
         {<<"f", "i", "g", "u", "r", "a", " ", "y", " ", "t", "a", "b", "l",
             "a">>},
         {<<"t", "a", "b", "l", "a">>},
         {<<"r", "e", "s", "u", "m", "e", "n">>}}
    /\ ctx_limits \in
         {[DefaultLimits EXCEPT !.max_chars = m] : m \in {0, 12, 40, 9000}}
         \cup {[max_chars |-> m, max_table_chars |-> 4,
                max_caption_chars |-> 4, max_text_chars |-> 4] :
                  m \in {12, 9000}}
    /\ ctx_out = {}

\* out = build_llm_context(payload, question, **limits)
BuildLlmContext ==
    /\ ctx_out = {}
    /\ ctx_out' = {build_llm_context(ctx_payload, ctx_question,
                       ctx_limits.max_chars, ctx_limits.max_table_chars,
                       ctx_limits.max_caption_chars,
                       ctx_limits.max_text_chars)}
    /\ UNCHANGED <<ctx_payload, ctx_question, ctx_limits>>
    /\ UNCHANGED <<dbVars, qdrant, faults, callVars, fpnVars, model_loads,
                   txnVars, uploadVars, clipVars, extractVars,
                   search_query, search_ranking, search_response>>

SpecContext == InitContext /\ [][BuildLlmContext]_vars

\* ------------------------------------------------- classes/document.py
\* re.sub(r"\s+", " ", s)
RECURSIVE CollapseWs(_)
CollapseWs(str) ==
    IF str = <<>> THEN <<>>
    ELSE IF Head(str) \in Whitespace
         THEN <<" ">> \o CollapseWs(LStrip(str))
         ELSE <<Head(str)>> \o CollapseWs(Tail(str))

\* _norm_ws(s)
_norm_ws(s) == Strip(CollapseWs(s))

\* Matching a regular expression from left to right: `from` is the set of
\* indices (counted from 0) the match may have reached, and each operator
\* gives the indices it may reach after one more piece of the pattern.
\* \s*
AfterSpaces(str, from) ==
    {j \in 0..Len(str) :
        \E i \in from : i <= j /\ \A k \in (i + 1)..j : str[k] \in Whitespace}

\* \d+
AfterDigits(str, from) ==
    {j \in 1..Len(str) :
        \E i \in from : i < j /\ \A k \in (i + 1)..j : IsDigit(str[k])}

\* (alt1|alt2|...) under re.IGNORECASE
AfterLiteral(str, from, alternatives) ==
    {j \in 0..Len(str) :
        \E i \in from : \E pat \in alternatives :
            j = i + Len(pat) /\ MatchesAt(StrLower(str), pat, i)}

\* (\.\d+)*
RECURSIVE AfterSubnumbers(_, _)
AfterSubnumbers(str, from) ==
    LET more == AfterDigits(str, AfterLiteral(str, from, {<<".">>}))
    IN  IF more \subseteq from THEN from
        ELSE AfterSubnumbers(str, from \cup more)

\* _PAGE_NUM_RE.match(txt):
\* ^\s*(p(á|a)gina|page)?\s*\d+\s*(de|/)\s*\d+\s*$
_PAGE_NUM_RE(txt) ==
    LET start == AfterSpaces(txt, {0})
        word == start \cup AfterLiteral(txt, start,
                    {<<"p", "aacute", "g", "i", "n", "a">>,
                     <<"p", "a", "g", "i", "n", "a">>,
                     <<"p", "a", "g", "e">>})
        n == AfterDigits(txt, AfterSpaces(txt, word))
        sep == AfterLiteral(txt, AfterSpaces(txt, n), {<<"d", "e">>, <<"/">>})
        m == AfterDigits(txt, AfterSpaces(txt, sep))
    IN  Len(txt) \in AfterSpaces(txt, m)

\* _CAPTION_RE.match(txt):
\* ^\s*(Figura|Fig\.|Ilustración|Ilus\.|Table|Tabla)\s*\d+(\.\d+)*\s*[:\.\-–]
_CAPTION_RE(txt) ==
    LET start == AfterSpaces(txt, {0})
        word == AfterLiteral(txt, start,
                    {<<"f", "i", "g", "u", "r", "a">>,
                     <<"f", "i", "g", ".">>,
                     <<"i", "l", "u", "s", "t", "r", "a", "c", "i", "oacute",
                         "n">>,
                     <<"i", "l", "u", "s", ".">>,
                     <<"t", "a", "b", "l", "e">>,
                     <<"t", "a", "b", "l", "a">>})
        n == AfterSubnumbers(txt, AfterDigits(txt, AfterSpaces(txt, word)))
    IN  AfterLiteral(txt, AfterSpaces(txt, n),
            {<<":">>, <<".">>, <<"-">>, <<"endash">>}) # {}

\* str.count(sub): occurrences that do not overlap, from the left.
RECURSIVE Count(_, _)
Count(str, sub) ==
    IF Find(str, sub) < 0 THEN 0
    ELSE 1 + Count(SubSeq(str, Find(str, sub) + Len(sub) + 1, Len(str)), sub)

\* looks_tabular
LooksTabular(txt) ==
    \/ Find(txt, <<"\t">>) >= 0
    \/ Find(txt, <<"|">>) >= 0
    \/ Count(txt, <<" ", " ">>) >= 2

\* The strips of 10% at the top and bottom of a page of height h
\* (y1 <= 0.10 * h, y0 >= 0.90 * h; the coordinates here are integers, for
\* which the comparison of floats gives the same as this one).
IsTop(block, h) == 10 * block.y1 <= h
IsBottom(block, h) == 10 * block.y0 >= 9 * h

\* thr = max(2, int(0.30 * n))
Threshold(n) == IF (3 * n) \div 10 > 2 THEN (3 * n) \div 10 ELSE 2

\* The texts of one strip over the first n pages that occur thr times or
\* more: {k for k, c in Counter(texts).items() if c >= thr}
Signatures(doc, n, strip) ==
    LET txt(at) == StrLower(_norm_ws(doc[at[1]].blocks[at[2]].t))
        texts == {at \in UNION {{<<i, j>> : j \in DOMAIN doc[i].blocks} :
                                   i \in 1..n} :
                     /\ txt(at) # <<>>
                     /\ IF strip = "top"
                        THEN IsTop(doc[at[1]].blocks[at[2]],
                                   doc[at[1]].height)
                        ELSE IsBottom(doc[at[1]].blocks[at[2]],
                                      doc[at[1]].height)}
    IN  {txt(at) : at \in
            {a \in texts :
                Cardinality({b \in texts : txt(b) = txt(a)}) >= Threshold(n)}}

\* Document._compute_header_footer_signatures(sample_pages)
_compute_header_footer_signatures(doc, sample_pages) ==
    LET n == IF Len(doc) < sample_pages THEN Len(doc) ELSE sample_pages
    IN  IF n <= 1 THEN [header |-> {}, footer |-> {}]
        ELSE [header |-> Signatures(doc, n, "top"),
              footer |-> Signatures(doc, n, "bottom")]

\* Mutant: every block of the bottom strip is skipped.
KindDropsBottom(block, h, sigs) ==
    LET txt == _norm_ws(block.t)
        low == StrLower(txt)
    IN  IF txt = <<>> THEN "skip"
        ELSE IF IsTop(block, h) /\ low \in sigs.header THEN "skip"
        ELSE IF IsBottom(block, h) THEN "skip"
        ELSE IF _CAPTION_RE(txt) /\ Len(txt) <= 300 THEN "caption"
        ELSE IF LooksTabular(txt) THEN "table_like"
        ELSE "text"

\* What the loop of _extract_payload_text does with a block: "skip"
\* (continue), or the kind it appends the block with.
Kind(block, h, sigs) ==
    LET txt == _norm_ws(block.t)
        low == StrLower(txt)
    IN  IF txt = <<>> THEN "skip"
        ELSE IF IsTop(block, h) /\ low \in sigs.header THEN "skip"
        ELSE IF IsBottom(block, h)
                /\ (low \in sigs.footer \/ _PAGE_NUM_RE(txt)) THEN "skip"
        ELSE IF _CAPTION_RE(txt) /\ Len(txt) <= 300 THEN "caption"
        ELSE IF LooksTabular(txt) THEN "table_like"
        ELSE "text"

\* blocks_out before the sort.
RECURSIVE BlocksOut(_, _, _)
BlocksOut(blocks, h, sigs) ==
    IF blocks = <<>> THEN <<>>
    ELSE LET b == Head(blocks)
         IN  (IF Kind(b, h, sigs) = "skip" THEN <<>>
              ELSE <<[bbox |-> <<b.x0, b.y0, b.x1, b.y1>>,
                      text |-> _norm_ws(b.t),
                      kind |-> Kind(b, h, sigs)]>>)
             \o BlocksOut(Tail(blocks), h, sigs)

\* The texts of the blocks of one kind, in the order of blocks_out.
RECURSIVE TextsOfKind(_, _)
TextsOfKind(blocks_out, kind) ==
    IF blocks_out = <<>> THEN <<>>
    ELSE (IF Head(blocks_out).kind = kind THEN <<Head(blocks_out).text>>
          ELSE <<>>)
         \o TextsOfKind(Tail(blocks_out), kind)

\* blocks_out.sort(key=lambda b: (b["bbox"][1], b["bbox"][0])): a stable
\* sort by (y0, x0).
RECURSIVE InsertBlock(_, _)
InsertBlock(sorted, b) ==
    IF sorted = <<>> THEN <<b>>
    ELSE IF \/ Head(sorted).bbox[2] > b.bbox[2]
            \/ /\ Head(sorted).bbox[2] = b.bbox[2]
               /\ Head(sorted).bbox[1] > b.bbox[1]
         THEN <<b>> \o sorted
    ELSE <<Head(sorted)>> \o InsertBlock(Tail(sorted), b)

RECURSIVE SortBlocks(_)
SortBlocks(blocks_out) ==
    IF blocks_out = <<>> THEN <<>>
    ELSE InsertBlock(SortBlocks(SubSeq(blocks_out, 1, Len(blocks_out) - 1)),
                     blocks_out[Len(blocks_out)])

\* Mutant: no part is dropped.
RECURSIVE PartsKeepAll(_, _)
PartsKeepAll(blocks_out, last) ==
    IF blocks_out = <<>> THEN <<>>
    ELSE <<Head(blocks_out).text>>
         \o PartsKeepAll(Tail(blocks_out), {Head(blocks_out).text})

\* parts: the texts of the sorted blocks without consecutive duplicates.
RECURSIVE Parts(_, _)
Parts(blocks_out, last) ==
    IF blocks_out = <<>> THEN <<>>
    ELSE IF {Head(blocks_out).text} = last
         THEN Parts(Tail(blocks_out), last)
         ELSE <<Head(blocks_out).text>>
              \o Parts(Tail(blocks_out), {Head(blocks_out).text})

\* Document._extract_payload_text(page), given the cached signatures.
_extract_payload_text(page, sigs) ==
    LET unsorted == BlocksOut(page.blocks, page.height, sigs)
        blocks_out == SortBlocks(unsorted)
    IN  [text |-> Strip(Join(Parts(blocks_out, {}), <<"\n", "\n">>)),
         blocks |-> blocks_out,
         tables_text |->
             Strip(Join(TextsOfKind(unsorted, "table_like"), <<"\n">>)),
         figure_captions |-> TextsOfKind(unsorted, "caption")]

\* The pages of the documents: blocks as page.get_text("blocks") gives
\* them, on a page of height 100.  A block with y1 = 10 is in the top
\* strip, one with y0 = 90 in the bottom strip, one with y0 = 89 is not.
Block(x0, y0, x1, y1, t) ==
    [x0 |-> x0, y0 |-> y0, x1 |-> x1, y1 |-> y1, t |-> t]

Page(blocks) == [height |-> 100, blocks |-> blocks]

PageTemplates == {
    Page(<<Block(10, 2, 90, 10,
               <<"I", "n", "f", "o", "r", "m", "e", " ", "I", "B", "V">>),
           Block(10, 20, 90, 30, <<"h", "o", "l", "a">>),
           Block(10, 90, 90, 98,
               <<"P", "aacute", "g", "i", "n", "a", " ", "3", " ", "d", "e",
                   " ", "2", "0">>)>>),
    Page(<<Block(10, 2, 90, 10,
               <<"I", "N", "F", "O", "R", "M", "E", " ", "\n", " ", "I", "B",
                   "V">>),
           Block(10, 20, 90, 30,
               <<"F", "i", "g", "u", "r", "a", " ", "1", ":", " ", "x">>),
           Block(10, 90, 90, 98,
               <<"p", "a", "g", "e", " ", "3", " ", "o", "f", " ", "2",
                   "0">>)>>),
    Page(<<Block(10, 90, 90, 98, <<"3", "/", "2", "0">>),
           Block(10, 65, 90, 70, <<"h", "o", "l", "a">>),
           Block(5, 40, 90, 50, <<"a", " ", "|", " ", "b">>),
           Block(10, 20, 90, 30, <<"h", "o", "l", "a">>),
           Block(10, 60, 90, 64, <<"h", "o", "l", "a", " ">>)>>),
    Page(<<Block(10, 90, 90, 98,
               <<"C", "a", "p", "iacute", "t", "u", "l", "o", " ", "3">>),
           Block(10, 20, 90, 30, <<"h", "o", "l", "a">>),
           Block(5, 20, 90, 30, <<"h", "o", "l", "a">>)>>),
    Page(<<Block(10, 90, 90, 98,
               <<"C", "o", "n", "f", "i", "d", "e", "n", "c", "i", "a",
                   "l">>),
           Block(10, 89, 90, 97,
               <<"P", "aacute", "g", "i", "n", "a", " ", "3", " ", "d", "e",
                   " ", "2", "0">>),
           Block(10, 20, 90, 30, <<" ", "\n">>)>>),
    Page(<<Block(10, 90, 90, 98,
               <<"c", "o", "n", "f", "i", "d", "e", "n", "c", "i", "a",
                   "l">>),
           Block(50, 90, 90, 98,
               <<"P", "A", "G", "E", " ", "3", " ", "O", "F", " ", "2",
                   "0">>),
           Block(10, 20, 90, 30,
               <<"T", "a", "b", "l", "a", " ", "2", ".", "1", " ", "-", " ",
                   "y">>)>>),
    Page(<<Block(10, 2, 90, 10,
               <<"I", "n", "f", "o", "r", "m", "e", " ", "I", "B", "V">>),
           Block(10, 20, 90, 30, <<"x", " ", " ", "y", " ", " ", "z">>),
           Block(10, 90, 90, 98,
               <<"P", "a", "g", "i", "n", "a", " ", "3", " ", "/", " ", "2",
                   "0">>)>>),
    Page(<<>>)}

\* A document of n pages on which the last k pages carry the same header
\* in the top strip and the first j pages the same footer in the bottom
\* strip; page 1 has a top-strip text of its own (unless it has the header)
\* and a body block with the text of the header.
LongDocument(n, k, j) ==
    [i \in 1..n |->
        Page((IF i > n - k
              THEN <<Block(10, 2, 90, 10,
                         <<"I", "n", "f", "o", "r", "m", "e", " ", "I", "B",
                             "V">>)>>
              ELSE IF i = 1
                   THEN <<Block(10, 2, 90, 10,
                              <<"P", "o", "r", "t", "a", "d", "a">>)>>
                   ELSE <<>>)
             \o <<Block(10, 20, 90, 30,
                      IF i = 1
                      THEN <<"I", "n", "f", "o", "r", "m", "e", " ", "I", "B",
                          "V">>
                      ELSE <<"h", "o", "l", "a">>)>>
             \o (IF i <= j
                 THEN <<Block(10, 90, 90, 98,
                            <<"C", "o", "n", "f", "i", "d", "e", "n", "c",
                                "i", "a", "l">>)>>
                 ELSE <<>>))]

InitExtract ==
    /\ InitIngestion
    /\ InitUpload
    /\ NoClipCall
    /\ NoContextCall
    /\ NoSearchCall
    /\ fpn_page = 0
    /\ fpn_total = 1
    /\ fpn_out = <<>>
    /\ self_doc \in
         UNION {[1..n -> PageTemplates] : n \in 1..MaxDocPages}
         \cup {LongDocument(n, k, j) :
                  n \in 1..MaxLongPages, k \in 0..MaxRepeats,
                  j \in 0..MaxRepeats}
    /\ _hf_sigs = {}
    /\ hf_computes = 0
    /\ ext_page = {}
    /\ ext_out = {}

\* Mutant: the cache is never used.
CacheMissAlways(cache) == TRUE

\* if self._hf_sigs is None
CacheMiss(cache) == cache = {}

\* out = self._extract_payload_text(self.doc[i - 1])
ExtractPayloadText(i) ==
    /\ i \in DOMAIN self_doc
    /\ LET sigs == IF CacheMiss(_hf_sigs)
                   THEN _compute_header_footer_signatures(self_doc, 12)
                   ELSE CHOOSE s \in _hf_sigs : TRUE
       IN  /\ _hf_sigs' = {sigs}
           /\ ext_out' = {_extract_payload_text(self_doc[i], sigs)}
    /\ hf_computes' = IF CacheMiss(_hf_sigs) THEN hf_computes + 1
                      ELSE hf_computes
    /\ ext_page' = {i}
    /\ UNCHANGED self_doc
    /\ UNCHANGED <<dbVars, qdrant, faults, callVars, fpnVars, model_loads,
                   txnVars, uploadVars, clipVars, ctxVars,
                   search_query, search_ranking, search_response>>

NextExtract == \E i \in 1..MaxLongPages : ExtractPayloadText(i)

SpecExtract == InitExtract /\ [][NextExtract]_vars

\* ------------------------------------------------------- main.py: search
\* The block the handler builds for one hit: the source line, then the
\* text, the tables and the captions of the payload that are not empty,
\* joined by a blank line.  A key the payload lacks is the empty set.
SearchBlock(payload, filename) ==
    LET page_num == IF payload.page_number = {} THEN <<"-", "1">>
                    ELSE LET digits == Str(CHOOSE n \in payload.page_number :
                                               TRUE)
                         IN  [i \in DOMAIN digits |->
                                 DigitChars[digits[i] + 1]]
        text_content == OrEmpty(payload.text)
        tables == OrEmpty(payload.tables_text)
        captions == payload.figure_captions
        block_parts ==
            <<<<"-", "-", "-", " ", "F", "U", "E", "N", "T", "E", ":",
                " ">> \o filename \o
              <<" ", "(", "P", "aacute", "g", "i", "n", "a",
                  " ">> \o page_num \o <<")", " ", "-", "-", "-", "\n">>>>
            \o (IF text_content # <<>>
                THEN <<<<"[", "C", "O", "N", "T", "E", "N", "I", "D", "O",
                    " ", "T", "E", "X", "T", "U", "A", "L", "]", ":",
                    "\n">> \o text_content>>
                ELSE <<>>)
            \o (IF tables # <<>>
                THEN <<<<"[", "D", "A", "T", "O", "S", " ", "T", "A", "B",
                    "U", "L", "A", "R", "E", "S", " ", "D", "E", "T", "E",
                    "C", "T", "A", "D", "O", "S", "]", ":", "\n">> \o tables>>
                ELSE <<>>)
            \o (IF captions # <<>>
                THEN <<<<"[", "I", "L", "U", "S", "T", "R", "A", "C", "I",
                    "O", "N", "E", "S", " ", "Y", " ", "F", "I", "G", "U",
                    "R", "A", "S", " ", "E", "N", " ", "E", "S", "T", "A",
                    " ", "P", "Aacute", "G", "I", "N", "A", "]", ":", "\n",
                    "-", " ">>
                       \o Join(captions, <<"\n", "-", " ">>)>>
                ELSE <<>>)
    IN  Join(block_parts, <<"\n", "\n">>)

\* A search request: the query and the points of the collection in the
\* order of their score for it.  Pages written by ingest_document carry
\* only a page number in their payload; a point may have no payload.
InitSearch ==
    /\ InitIngestion
    /\ InitUpload
    /\ NoClipCall
    /\ NoContextCall
    /\ NoExtractCall
    /\ fpn_page = 0
    /\ fpn_total = 1
    /\ fpn_out = <<>>
    /\ search_query \in
         [text : {<<"r", "e", "s", "u", "m", "e", "n">>, <<"t", "a", "b", "l",
             "a", " ", "d", "e", " ", "c", "o", "s", "t", "e", "s">>, <<"f",
             "i", "g", "u", "r", "a", " ", "3">>},
          limit : {{}, {0}, {1}}]
    /\ search_ranking \in
         UNION {[1..n ->
                   [score : {1},
                    payload : {{}}
                      \cup {{[text |-> t, tables_text |-> {},
                              figure_captions |-> <<>>, page_number |-> {2},
                              document_hash |-> {}, table_weirdness |-> {}]} :
                                t \in {{}, {<<"h", "o", "l", "a">>}}}
                      \cup {{[text |-> {<<"C", "o", "s", "t", "e", "s">>},
                              tables_text |-> {<<"a", " ", "|", " ", "1">>},
                              figure_captions |-> <<<<"F", "i", "g", "u", "r",
                                  "a", " ", "3", ":", " ", "x">>>>,
                              page_number |-> {},
                              document_hash |-> {<<"a", "b", "c">>},
                              table_weirdness |-> {}]}}]] : n \in 0..MaxHits}
    /\ search_response = {}

\* POST /search.  app_resources holds the model and the database once the
\* application has started.  ColPaliModel has no method process_text, so
\* the first statement of the try block raises AttributeError, which the
\* handler turns into the response 500.
Search ==
    /\ search_response = {}
    /\ LET methods == {"__init__", "_get_optimal_device", "close",
                       "process_page", "__enter__", "__exit__"}
           limit == IF search_query.limit \in {{}, {0}} THEN 5
                    ELSE CHOOSE n \in search_query.limit : TRUE
           points_found == Prefix(search_ranking, limit)
           hits == SelectSeq(points_found, LAMBDA hit : hit.payload # {})
           payload(k) == CHOOSE pl \in hits[k].payload : TRUE
           document_hash(k) ==
               IF payload(k).document_hash = {}
               THEN <<"D", "o", "c", "u", "m", "e", "n", "t", "o", " ", "d",
                   "e", "s", "c", "o", "n", "o", "c", "i", "d", "o">>
               ELSE CHOOSE h \in payload(k).document_hash : TRUE
           filename(k) ==
               IF \E r \in documents : r.doc_hash = document_hash(k)
               THEN <<(CHOOSE r \in documents :
                           r.doc_hash = document_hash(k)).filename>>
               ELSE <<"A", "r", "c", "h", "i", "v", "o", " ", "d", "e", "s",
                   "c", "o", "n", "o", "c", "i", "d", "o">>
           context_blocks ==
               [k \in DOMAIN hits |-> SearchBlock(payload(k), filename(k))]
           final_results ==
               [k \in DOMAIN hits |->
                   [page_number |-> IF payload(k).page_number = {} THEN -1
                                    ELSE CHOOSE n \in payload(k).page_number :
                                             TRUE,
                    document_hash |-> document_hash(k),
                    filename |-> filename(k),
                    score |-> hits[k].score,
                    content |-> OrEmpty(payload(k).text),
                    formated_context |-> context_blocks[k]]]
       IN  search_response' =
               IF "process_text" \in methods
               THEN {[status_code |-> 200,
                      query |-> search_query.text,
                      results |-> final_results,
                      full_prompt_context |-> Join(context_blocks, <<"\n">>)]}
               ELSE {[status_code |-> 500, detail |-> "AttributeError"]}
    /\ UNCHANGED <<search_query, search_ranking>>
    /\ UNCHANGED <<dbVars, qdrant, faults, callVars, fpnVars, model_loads,
                   txnVars, uploadVars, clipVars, ctxVars, extractVars>>

SpecSearch == InitSearch /\ [][Search]_vars

\* ==================================================================== claims
HashOf(c) == Doc(c).hash

\* The points stored for the document with row id `id`.
PointsOfDocument(id) == {q \in qdrant : q.document_id = id}

\* Every page 0..total_pages-1 of row r has a point in the VectorStore.
AllPagesUpserted(r) ==
    \A n \in 0..(r.total_pages - 1) :
        \E q \in PointsOfDocument(r.id) : q.page_number = n

\* The call ended with a return value, not with an exception.
Succeeded(c) == ret[c].status \in {"ingested", "already_exists"}

\* The call ended because the relational server failed under it.
BackendFault(c, steps) ==
    /\ ret[c].status = "error"
    /\ ret[c].error = "MySQLError"
    /\ ret[c].step \in steps

\* C1: idempotence.  When call c1 ingested a document and a later call c2 is
\* given the same content, c2 reports that the document already exists
\* (unless the database fails under it), the MetadataStore holds exactly one
\* record of the hash, and the VectorStore holds for it exactly the points c1
\* built, one per page.
C1_Idempotent ==
    \A c1, c2 \in Calls :
        ( /\ c1 < c2
          /\ ret[c1].status = "ingested"
          /\ document[c2] # {}
          /\ HashOf(c2) = HashOf(c1) )
        => /\ Finished(c2) =>
                \/ ret[c2].status = "already_exists"
                \/ BackendFault(c2, {"document_exists", "update_document_path"})
           /\ Cardinality(RowsByHash(HashOf(c1))) = 1
           /\ PointsOfDocument(ret[c1].document_id)
                = {points[c1][i] : i \in 1..Len(points[c1])}
           /\ Cardinality(PointsOfDocument(ret[c1].document_id))
                = Doc(c1).total_pages

\* C1 witness: a two-page document ingested, then ingested again from another
\* path and reported as already existing.
C1_Witness ==
    \E c1, c2 \in Calls :
        /\ c1 < c2
        /\ ret[c1].status = "ingested"
        /\ ret[c2].status = "already_exists"
        /\ HashOf(c1) = HashOf(c2)
        /\ Doc(c1).total_pages = 2
        /\ arg[c1].path # arg[c2].path

\* C2: at most one record per content hash, whatever the interleaving; equal
\* bytes give equal hashes whatever the path, and a call that returns leaves
\* exactly one record of its hash.
C2_OneRecordPerHash ==
    /\ \A r1, r2 \in documents : r1.doc_hash = r2.doc_hash => r1 = r2
    /\ \A c1, c2 \in Calls :
          (document[c1] # {} /\ document[c2] # {})
          => (arg[c1].bytes = arg[c2].bytes <=> HashOf(c1) = HashOf(c2))
    /\ \A c \in Calls :
          Succeeded(c) => Cardinality(RowsByHash(HashOf(c))) = 1

\* C2 witness: the same bytes under two file names, one call ingested them
\* and the other resolved to the record of the first.
C2_Witness ==
    \E c1, c2 \in Calls :
        /\ ret[c1].status = "ingested"
        /\ ret[c2].status = "already_exists"
        /\ arg[c1].bytes = arg[c2].bytes
        /\ arg[c1].path # arg[c2].path
        /\ Cardinality(documents) = 1

\* C3 (as claimed): a record is indexed only when every page of it has a
\* point in the VectorStore, and a successful ingestion of new content ends
\* with the record indexed.
C3_IndexedAfterSuccess ==
    /\ \A r \in documents : r.indexed_in_qdrant => AllPagesUpserted(r)
    /\ \A c \in Calls :
          ret[c].status = "ingested"
          => \A r \in RowsByHash(HashOf(c)) : r.indexed_in_qdrant

\* C4 (as claimed): when an ingestion failed after its record was written, a
\* later ingestion of the same content that does not fail leaves the current
\* path stored, a point for every page, and the record indexed.
C4_RecoveryOnRetry ==
    \A c1, c2 \in Calls :
        ( /\ c1 < c2
          /\ ret[c1].status = "error"
          /\ result[c1] # {}
          /\ document[c2] # {}
          /\ HashOf(c2) = HashOf(c1)
          /\ Succeeded(c2) )
        => \A r \in RowsByHash(HashOf(c2)) :
              /\ r.upload_path = Doc(c2).upload_path
              /\ AllPagesUpserted(r)
              /\ r.indexed_in_qdrant

\* The points of call c that are in the VectorStore.
StoredPointsOf(c) ==
    {q \in qdrant : \E i \in 1..Len(points[c]) : points[c][i].id = q.id}

\* C5: a call that raised stopped at the step that raised (nothing was
\* inserted, embedded or upserted past it), the caller holds the error, and
\* the record of its hash, if there is one, is not indexed.
C5_FailedIngestionNotIndexed ==
    \A c \in Calls :
        ret[c].status = "error"
        => /\ pc[c] = "raised"
           /\ document[c] # {}
                => \A r \in RowsByHash(HashOf(c)) : ~r.indexed_in_qdrant
           /\ ret[c].step \in {"Document", "document_exists",
                               "update_document_path", "insert_document"}
                => result[c] = {} /\ points[c] = <<>>
           /\ ret[c].step = "embed"
                => Len(points[c]) = p[c]
           /\ ret[c].step = "upsert"
                => Len(points[c]) = p[c] + 1
           /\ StoredPointsOf(c) = {points[c][i] : i \in 1..p[c]}

\* C5 witness: a two-page document whose second upsert raised: the record is
\* there, not indexed, and the first page's point is stored.
C5_Witness ==
    \E c \in Calls :
        /\ ret[c].status = "error"
        /\ ret[c].step = "upsert"
        /\ p[c] = 1
        /\ \E r \in RowsByHash(HashOf(c)) : ~r.indexed_in_qdrant

\* A row without its upload_path.
WithoutPath(r) == [r EXCEPT !.upload_path = <<>>]

\* C6: a step of a call whose hash has an indexed record inserts no record,
\* embeds no page and upserts no point; of the stores it changes at most the
\* upload_path of rows of that hash, and it ends the call with the
\* already-exists answer (or with the database's error).
C6_EarlyReturnFrame ==
    [][ \A c \in Calls :
          ( /\ pc[c] \in {"lookup", "branch"}
            /\ pc'[c] # pc[c]
            /\ \E r \in documents :
                  r.doc_hash = HashOf(c) /\ r.indexed_in_qdrant )
          => /\ qdrant' = qdrant
             /\ pages' = pages
             /\ nextDocId' = nextDocId
             /\ points'[c] = <<>> /\ result'[c] = {}
             /\ Cardinality(documents') = Cardinality(documents)
             /\ {WithoutPath(r) : r \in documents'}
                  = {WithoutPath(r) : r \in documents}
             /\ \A r \in documents' : r.doc_hash # HashOf(c) => r \in documents
             /\ pc'[c] \in {"branch", "returned", "raised"}
             /\ pc'[c] = "returned" => ret'[c].status = "already_exists"
             /\ pc'[c] = "raised" => ret'[c].error = "MySQLError"
      ]_vars

\* C6 witness: a call found an indexed record of its hash, returned early and
\* changed the stored path.
C6_Witness ==
    \E c \in Calls :
        /\ ret[c].status = "already_exists"
        /\ \E seen \in ret[c].document_already_exists :
              /\ seen.indexed_in_qdrant
              /\ \E r \in RowsByHash(HashOf(c)) :
                    /\ r.upload_path # seen.upload_path
                    /\ r.indexed_in_qdrant

\* C7 (as claimed): the VectorStore never holds some but not all of the
\* points of a document that is being ingested for the first time.
C7_NoPartialBatch ==
    \A c \in Calls :
        result[c] # {}
        => LET res == CHOOSE r \in result[c] : TRUE
               n == Cardinality(PointsOfDocument(res.document_id))
           IN  n = 0 \/ n = res.total_pages

\* C8 (as claimed): the identifier of every stored point is the function of
\* (content hash, page number) that Document.page_to_qdrant computes, so that
\* a second computation for the page gives the same identifier, and no two
\* stored points are of the same document and page.
C8_DeterministicPointId ==
    /\ \A q \in qdrant :
          \E r \in documents :
              /\ r.id = q.document_id
              /\ q.id = PageToQdrantId(r.doc_hash, q.page_number, r.total_pages)
    /\ \A q1, q2 \in qdrant :
          (q1.document_id = q2.document_id /\ q1.page_number = q2.page_number)
          => q1 = q2

\* Number of decimal digits of n >= 0, from the powers of ten.
NumDigits(n) == CHOOSE k \in 1..6 : (k = 1 \/ 10^(k-1) <= n) /\ n < 10^k

\* The number a sequence of decimal digits writes.
RECURSIVE DecimalValue(_)
DecimalValue(s) ==
    IF s = <<>> THEN 0
    ELSE 10 * DecimalValue(SubSeq(s, 1, Len(s) - 1)) + s[Len(s)]

\* C9: for 0 <= page < total_pages the result has as many characters as
\* total_pages has digits, all of them digits, and writes the number page:
\* it is page left-padded with zeros.
C9_ZeroPadded ==
    (fpn_out # <<>> /\ fpn_total # {})
    => LET T == CHOOSE t \in fpn_total : TRUE
       IN  fpn_page < T
           => /\ Len(fpn_out) = NumDigits(T)
              /\ \A i \in 1..Len(fpn_out) : fpn_out[i] \in 0..9
              /\ DecimalValue(fpn_out) = fpn_page

\* C9 witness: page 3 of 120 gave "003".
C9_Witness ==
    fpn_page = 3 /\ fpn_total = {120} /\ fpn_out = <<0, 0, 3>>

\* s before t in lexicographic order (strictly).
RECURSIVE LexLess(_, _)
LexLess(s, t) ==
    IF t = <<>> THEN FALSE
    ELSE IF s = <<>> THEN TRUE
    ELSE IF Head(s) # Head(t) THEN Head(s) < Head(t)
    ELSE LexLess(Tail(s), Tail(t))

\* C10: the padded string of a page has the length of, and sorts strictly
\* before, the padded string of every later page of the same document.
C10_LexicographicPageOrder ==
    (fpn_out # <<>> /\ fpn_total # {})
    => LET T == CHOOSE t \in fpn_total : TRUE
       IN  \A q \in (fpn_page + 1)..(T - 1) :
              /\ Len(fill_page_number(q, fpn_total)) = Len(fpn_out)
              /\ LexLess(fpn_out, fill_page_number(q, fpn_total))

\* C10 witness: page 9 of 120 gave "009", which sorts before "010".
C10_Witness ==
    /\ fpn_page = 9 /\ fpn_total = {120} /\ fpn_out = <<0, 0, 9>>
    /\ LexLess(fpn_out, fill_page_number(10, fpn_total))

\* The call looked its hash up and was told there is no record of it.
ObservedNotFound(c) ==
    /\ document[c] # {}
    /\ pc[c] \notin {"idle", "lookup"}
    /\ ~(ret[c].status = "error" /\ ret[c].step = "document_exists")
    /\ document_exists[c] = {}

\* The call executed the INSERT of insert_document (it went through or not).
ExecutedInsert(c) ==
    \/ result[c] # {}
    \/ ret[c].status = "error" /\ ret[c].step = "insert_document"

\* C11: nothing between the look-up and the insert makes the pair atomic.
\* When two calls of the same content both observed "not found", each of them
\* goes on to execute the metadata insert for that hash: neither takes the
\* already-exists return, at most one insert goes through, and the other
\* caller gets the database's error.
C11_CheckThenInsertRace ==
    \A c1, c2 \in Calls :
        ( /\ c1 # c2
          /\ ObservedNotFound(c1) /\ ObservedNotFound(c2)
          /\ HashOf(c1) = HashOf(c2)
          /\ pc[c1] # "branch" /\ pc[c2] # "branch" )
        => /\ ExecutedInsert(c1) /\ ExecutedInsert(c2)
           /\ ret[c1].status # "already_exists"
           /\ ret[c2].status # "already_exists"
           /\ result[c1] = {} \/ result[c2] = {}
           /\ result[c1] = {}
                => ret[c1].error \in {"IntegrityError", "MySQLError"}
           /\ result[c2] = {}
                => ret[c2].error \in {"IntegrityError", "MySQLError"}

\* C11 witness: two calls of the same bytes were both at the branch with
\* "not found" in hand while no record existed, and both executed the insert:
\* one row was written, the other insert was refused by the key.
C11_Witness ==
    \E c1, c2 \in Calls :
        /\ c1 # c2
        /\ ObservedNotFound(c1) /\ ObservedNotFound(c2)
        /\ arg[c1].bytes = arg[c2].bytes
        /\ result[c1] # {}
        /\ ret[c2].status = "error"
        /\ ret[c2].step = "insert_document"
        /\ ret[c2].error = "IntegrityError"

\* The entries an upload of f alone, into any state of the directories, can
\* get: the refusal of its name, the refusal of Document, or the error of the
\* ingestion call; a failing disk gives OSError at any time.
AloneErrors(f) ==
    IF ~IsPdfName(f.filename) THEN {"not_pdf"}
    ELSE {"OSError"} \cup
         ( IF Len(f.bytes) = 0 THEN {"ValueError:empty"}
           ELSE IF f.corrupt THEN {"fitz.open"}
           ELSE {"TypeError"} )

\* C12: the handler appends exactly one entry per file, in input order; the
\* entry of a file is one that an upload of this file alone can get, whatever
\* happened to the files before it; and the response holds the N entries.
C12_BatchIsolation ==
    /\ up_pc \notin {"idle", "serving"} => Len(results) = file_idx - 1
    /\ up_pc \in {"copy", "validate", "hash", "store", "ingest"} => InLoop
    /\ \A k \in 1..Len(results) :
          /\ results[k].filename = files[k].filename
          /\ results[k].error \in AloneErrors(files[k])
    /\ \A r \in response :
          /\ Len(r.results) = Len(files)
          /\ r.results = results

\* C12 witness: the first file of a batch failed in Document (empty file) and
\* the second, a PDF, was still stored and handed to the ingestion; the
\* response holds both entries.
C12_Witness ==
    /\ response # {}
    /\ Len(files) = 2
    /\ results[1].error = "ValueError:empty"
    /\ results[2].error = "TypeError"
    /\ \E d \in data_dir : d.bytes = files[2].bytes

\* A file that the validation of the claim refuses: name not ending in .pdf,
\* path missing, a directory, an empty file, no read permission.
FailsValidation(f) ==
    \/ Lower(f.path.ext) # "pdf"
    \/ f.kind # "file"
    \/ Len(f.bytes) = 0
    \/ ~f.readable

ValidationErrors ==
    {"not_pdf", "ValueError:not_pdf", "FileNotFoundError",
     "ValueError:directory", "ValueError:empty", "PermissionError"}

\* The uploaded file as a file at its temporary path.
AsFile(u) ==
    [path |-> u.filename, kind |-> "file", readable |-> TRUE,
     bytes |-> u.bytes, corrupt |-> u.corrupt]

\* C13: a file that fails validation is refused before anything is done with
\* it.  In the handler it never reaches the hashing, the storing or the
\* ingestion; the step that refuses it appends a validation error entry,
\* leaves DATA_DIR, the MetadataStore, the VectorStore and the model alone
\* and goes on with the next file.  In ingest_document called with a path,
\* the call raises the validation error with no Document (no hash), no
\* insert result and no point, and the stores as they were.
C13_ValidationRejects ==
    /\ [](up_pc \in {"hash", "store", "ingest"}
            => ~FailsValidation(AsFile(File)) /\ File.filename # NoFilename)
    /\ [](\A c \in Calls : document[c] # {} => ~FailsValidation(arg[c]))
    /\ [][ /\ ( /\ InLoop
                /\ up_pc' # up_pc \/ file_idx' # file_idx
                /\ \/ up_pc = "check" /\ Lower(File.filename.ext) # "pdf"
                   \/ up_pc = "validate" /\ FailsValidation(AsFile(File)) )
              => /\ Len(results') = Len(results) + 1
                 /\ results'[Len(results')].filename = File.filename
                 /\ results'[Len(results')].error \in ValidationErrors
                 /\ up_doc = {} /\ up_doc' = {}
                 /\ data_dir' = data_dir
                 /\ <<dbVars, qdrant, model_loads>>' = <<dbVars, qdrant, model_loads>>
                 /\ file_idx' = file_idx + 1
                 /\ up_pc' = "check"
           /\ \A c \in Calls :
                ( /\ pc[c] = "idle" /\ pc'[c] # "idle"
                  /\ FailsValidation(arg'[c]) )
                => /\ pc'[c] = "raised"
                   /\ ret'[c].step = "Document"
                   /\ ret'[c].error \in ValidationErrors
                   /\ document'[c] = {} /\ result'[c] = {} /\ points'[c] = <<>>
                   /\ <<dbVars, qdrant, model_loads>>' = <<dbVars, qdrant, model_loads>>
       ]_vars

\* C13 witness: a batch of a file without a PDF name and an empty PDF: both
\* got their validation entry, the batch was answered, nothing was stored.
C13_Witness ==
    /\ response # {}
    /\ Len(files) = 2
    /\ results[1].error = "not_pdf"
    /\ results[2].error = "ValueError:empty"
    /\ data_dir = {} /\ temp_dir = {}
    /\ documents = {} /\ qdrant = {}

\* The rows of pages that belong to the documents row r.
PagesOf(r) == {pg \in pages : pg.document_id = r.id}

\* C14: when insert_document fails, whichever statement failed, the
\* MetadataStore is what it was before the call: the committed tables did
\* not change while the call was in insert_document, the rows the call had
\* written are rolled back (no open transaction is left), and the caller
\* gets the error.  No record is ever committed without all of its pages,
\* and no page without its record.
C14_InsertRolledBack ==
    /\ []( (\A c \in Calls : pc[c] # "insert_pages")
             => txn_documents = {} /\ txn_pages = {} )
    /\ []( /\ \A r \in documents : Cardinality(PagesOf(r)) = r.total_pages
           /\ \A pg \in pages : \E r \in documents : r.id = pg.document_id )
    /\ [][ \A c \in Calls :
             ( /\ pc[c] \in {"branch", "insert_pages"}
               /\ ~Truthy(document_exists[c])
               /\ pc'[c] # "loop" )
             => /\ documents' = documents
                /\ pages' = pages
                /\ pc'[c] \in {"branch", "insert_pages", "raised"}
                /\ pc'[c] = "raised"
                     => /\ txn_documents' = {} /\ txn_pages' = {}
                        /\ ret'[c].status = "error"
                        /\ ret'[c].step = "insert_document"
                        /\ result'[c] = {}
       ]_vars

\* C14 witness: insert_document of a two-page document failed at its second
\* page: the row and the first page had been written, and nothing is left.
C14_Witness ==
    \E c \in Calls :
        /\ ret[c].status = "error"
        /\ ret[c].step = "insert_document"
        /\ Doc(c).total_pages = 2
        /\ p[c] = 1
        /\ nextDocId = 2
        /\ documents = {} /\ pages = {}
        /\ txn_documents = {} /\ txn_pages = {}

\* C15 (as claimed): the filesystem holds nothing of an upload that failed.
\* No file is in TEMP_DIR once the handler is done with its upload, and a
\* file is in DATA_DIR only for an upload that is still being processed or
\* was accepted (its entry carries no error).
C15_FilesystemRolledBack ==
    /\ \A t \in temp_dir :
          /\ InLoop
          /\ up_pc \in {"validate", "hash", "store"}
          /\ t.filename = File.filename
    /\ \A d \in data_dir :
          \/ InLoop /\ up_pc = "ingest" /\ File.bytes = d.bytes
          \/ \E k \in 1..Len(results) :
                /\ files[k].bytes = d.bytes
                /\ "error" \notin DOMAIN results[k]

\* C16 (as claimed): the embedding model is loaded at most once in the life
\* of the process, and only at start-up: never once a request or a call of
\* ingest_document has begun, however many pages are embedded.
C16_ModelLoadedOnce ==
    /\ model_loads <= 1
    /\ (\A c \in Calls : pc[c] = "idle") \/ model_loads = 0

\* C19: whatever the text and the budget max_chars >= 0, the string _clip
\* returns has at most max_chars + 1 characters: the budget and the ellipsis.
C19_ClipBound ==
    \A out \in clip_out : Len(out) <= clip_max + 1

\* C19 witness: a text longer than its budget, with no place for a soft cut,
\* came back as budget characters and the ellipsis: one over the budget.
C19_Witness ==
    \E out \in clip_out :
        /\ clip_max = 4
        /\ Len(Strip(clip_text)) = 6
        /\ Len(out) = clip_max + 1
        /\ out[Len(out)] = Ellipsis

\* Section a comes before section b where the context has both.
Precedes(str, a, b) ==
    Find(str, a) >= 0 /\ Find(str, b) >= 0 => Find(str, a) < Find(str, b)

InOrder(str, a, b, c) ==
    Precedes(str, a, b) /\ Precedes(str, b, c) /\ Precedes(str, a, c)

\* The intents of the question and payload of the call.
TableIntent ==
    \/ _wants_tables(Strip(OrEmpty(ctx_question)))
    \/ ForcesTables(ctx_payload.table_weirdness)

FigureIntent == _wants_figures(Strip(OrEmpty(ctx_question)))

\* Both labels of the tables section start with this word.
AnyTablesLabel == <<"T", "A", "B", "L", "A", "S">>

\* The call of the example: the question "presupuesto total 2024" on a
\* payload with tables_text, prose and captions, under the default limits.
BudgetExample ==
    /\ ctx_question = {<<"p", "r", "e", "s", "u", "p", "u", "e", "s", "t",
        "o", " ", "t", "o", "t", "a", "l", " ", "2", "0", "2", "4">>}
    /\ Strip(OrEmpty(ctx_payload.text)) # <<>>
    /\ Strip(OrEmpty(ctx_payload.tables_text)) # <<>>
    /\ StrippedCaptions(ctx_payload.figure_captions) # <<>>
    /\ ctx_limits = DefaultLimits

\* Where the first content section starts: after the header, if any.
FirstSectionIndex ==
    LET header == Header(ctx_payload.page_number, ctx_payload.document_hash)
    IN  IF header = <<>> THEN 0 ELSE Len(header[1]) + Len(SectionSeparator)

C18_WithinBudget ==
    \A out \in ctx_out : Len(out) <= ctx_limits.max_chars

\* A string of digits.
IsNumber(str) == str # <<>> /\ \A i \in 1..Len(str) : IsDigit(str[i])

\* The three forms of a page numbering: "page N of M", "página N de M" and
\* "N/M", in any letter case.
IsPageNumbering(txt) ==
    \E i, j \in 0..Len(txt) :
        LET n == SubSeq(txt, 1, i)
            m == SubSeq(txt, j + 1, Len(txt))
            between == StrLower(SubSeq(txt, i + 1, j))
        IN  /\ i <= j
            /\ \/ /\ IsNumber(n) /\ IsNumber(m)
                  /\ between = <<"/">>
               \/ \E form \in {[word |-> <<"p", "a", "g", "e", " ">>,
                   sep |-> <<" ", "o", "f", " ">>],
                               [word |-> <<"p", "aacute", "g", "i", "n", "a",
                                   " ">>, sep |-> <<" ", "d", "e", " ">>]} :
                     /\ i > Len(form.word)
                     /\ StrLower(SubSeq(txt, 1, Len(form.word))) = form.word
                     /\ IsNumber(SubSeq(txt, Len(form.word) + 1, i))
                     /\ between = form.sep
                     /\ IsNumber(m)

\* The page the last call was made on.
ExtractedPage == self_doc[CHOOSE i \in ext_page : TRUE]

\* The block is not in the returned blocks, and its text not in the clean
\* text (unless another block of the page has that text too).
BlockRemoved(block, page, out) ==
    /\ \A k \in DOMAIN out.blocks :
          out.blocks[k].bbox # <<block.x0, block.y0, block.x1, block.y1>>
    /\ (\A k \in DOMAIN page.blocks :
            page.blocks[k] # block
                => Find(_norm_ws(page.blocks[k].t), _norm_ws(block.t)) < 0)
          => Find(out.text, _norm_ws(block.t)) < 0

\* C20: a bottom-strip block whose whole normalized text is a page
\* numbering ("page N of M", "página N de M" or "N/M", in any letter case)
\* is removed from the page's blocks and clean text.
C20_PageNumberingRemoved ==
    \A out \in ext_out :
        \A k \in DOMAIN ExtractedPage.blocks :
            LET block == ExtractedPage.blocks[k]
            IN  IsBottom(block, ExtractedPage.height)
                /\ IsPageNumbering(_norm_ws(block.t))
                    => BlockRemoved(block, ExtractedPage, out)

\* The block is in the returned blocks, and its text in the clean text.
BlockKept(block, out) ==
    /\ \E k \in DOMAIN out.blocks :
          /\ out.blocks[k].bbox = <<block.x0, block.y0, block.x1, block.y1>>
          /\ out.blocks[k].text = _norm_ws(block.t)
    /\ Find(out.text, _norm_ws(block.t)) >= 0

\* A bottom-strip block with a text that is no page numbering: neither of
\* one of the three forms, nor matched by the pattern of the code.
PlainBottomBlock(block, page) ==
    /\ IsBottom(block, page.height)
    /\ _norm_ws(block.t) # <<>>
    /\ ~IsPageNumbering(_norm_ws(block.t))
    /\ ~_PAGE_NUM_RE(_norm_ws(block.t))

\* C21 (as stated): a bottom-strip block whose text is not a page
\* numbering, such as "Capítulo 3", is never removed: on every page on
\* which it occurs it is in the page's blocks and clean text.
C21_NeverRemoved ==
    \A out \in ext_out :
        \A k \in DOMAIN ExtractedPage.blocks :
            PlainBottomBlock(ExtractedPage.blocks[k], ExtractedPage)
                => BlockKept(ExtractedPage.blocks[k], out)

\* C21 (amended): a bottom-strip block whose text is not a page numbering
\* is in the page's blocks and clean text unless its lower-cased text is a
\* footer signature of the document.
C21_KeptUnlessFooterSignature ==
    \A out \in ext_out : \A sigs \in _hf_sigs :
        \A k \in DOMAIN ExtractedPage.blocks :
            LET block == ExtractedPage.blocks[k]
            IN  (/\ PlainBottomBlock(block, ExtractedPage)
                 /\ StrLower(_norm_ws(block.t)) \notin sigs.footer)
                    => BlockKept(block, out)

C21_Witness ==
    \E out \in ext_out : \E k \in DOMAIN ExtractedPage.blocks :
        LET block == ExtractedPage.blocks[k]
        IN  /\ block.t =
                 <<"C", "a", "p", "iacute", "t", "u", "l", "o", " ", "3">>
            /\ PlainBottomBlock(block, ExtractedPage)
            /\ Len(self_doc) > 1
            /\ BlockKept(block, out)

\* The block is not in the returned blocks.
Discarded(block, out) ==
    \A k \in DOMAIN out.blocks :
        out.blocks[k].bbox # <<block.x0, block.y0, block.x1, block.y1>>

\* C22: a non-empty block is discarded if and only if it lies in the top
\* strip and its normalized lower-cased text is a header signature, or it
\* lies in the bottom strip and its text is a footer signature or a page
\* numbering (one of the forms "page N of M", "página N de M", "N/M", or
\* what the pattern of the code matches).
C22_BoilerplateFilter ==
    \A out \in ext_out : \A sigs \in _hf_sigs :
        \A k \in DOMAIN ExtractedPage.blocks :
            LET block == ExtractedPage.blocks[k]
                txt == _norm_ws(block.t)
                low == StrLower(txt)
            IN  txt # <<>> =>
                  (Discarded(block, out) <=>
                     \/ IsTop(block, ExtractedPage.height)
                        /\ low \in sigs.header
                     \/ IsBottom(block, ExtractedPage.height)
                        /\ \/ low \in sigs.footer
                           \/ _PAGE_NUM_RE(txt)
                           \/ IsPageNumbering(txt))

\* The number of sampled pages, and the blocks of these pages (page, block).
SampledPages == IF Len(self_doc) < 12 THEN Len(self_doc) ELSE 12

SampledBlocks ==
    UNION {{<<i, k>> : k \in DOMAIN self_doc[i].blocks} :
              i \in 1..SampledPages}

\* The candidates of a strip equal to txt among the sampled pages.
Candidates(txt, strip) ==
    {at \in SampledBlocks :
        LET page == self_doc[at[1]]
            block == page.blocks[at[2]]
        IN  /\ StrLower(_norm_ws(block.t)) = txt
            /\ IF strip = "top" THEN IsTop(block, page.height)
               ELSE IsBottom(block, page.height)}

\* The normalized lower-cased texts of the document.
DocumentTexts ==
    UNION {{StrLower(_norm_ws(self_doc[i].blocks[k].t)) :
               k \in DOMAIN self_doc[i].blocks} : i \in DOMAIN self_doc}
    \ {<<>>}

\* count >= max(2, 30% of n)
ReachesThreshold(count, n) == count >= 2 /\ 10 * count >= 3 * n

\* C23: with n = min(total_pages, 12) > 1 sampled pages, a normalized
\* string is a header (footer) signature if and only if the number of
\* top-strip (bottom-strip) candidates of the sampled pages equal to it is
\* at least max(2, 30% of n); with at most one page both sets are empty.
C23_SignatureThreshold ==
    \A sigs \in _hf_sigs :
        IF SampledPages <= 1
        THEN sigs.header = {} /\ sigs.footer = {}
        ELSE \A txt \in DocumentTexts \cup sigs.header \cup sigs.footer :
                /\ txt \in sigs.header
                     <=> ReachesThreshold(
                             Cardinality(Candidates(txt, "top")),
                             SampledPages)
                /\ txt \in sigs.footer
                     <=> ReachesThreshold(
                             Cardinality(Candidates(txt, "bottom")),
                             SampledPages)

\* The text contains a tab, a pipe, or at least two runs of two spaces.
HasColumns(t) ==
    \/ Find(t, <<"\t">>) >= 0
    \/ Find(t, <<"|">>) >= 0
    \/ Count(t, <<" ", " ">>) >= 2

\* The blocks of the page that survive, with the kind they were given.
Survivors(out) ==
    {<<k, b>> \in (DOMAIN ExtractedPage.blocks) \X (DOMAIN out.blocks) :
        LET block == ExtractedPage.blocks[k]
        IN  out.blocks[b].bbox =
                <<block.x0, block.y0, block.x1, block.y1>>}

\* C24: every surviving block has exactly one kind; one that is not a
\* caption is table_like if the text extracted for it contains a tab, a
\* pipe or at least two double-space runs, and text otherwise; tables_text
\* and figure_captions hold exactly the texts of the table_like and the
\* caption blocks.
C24_BlockClassification ==
    \A out \in ext_out :
        /\ \A b \in DOMAIN out.blocks :
              out.blocks[b].kind \in {"caption", "table_like", "text"}
        /\ \A kb \in Survivors(out) :
              out.blocks[kb[2]].kind # "caption"
                  => (out.blocks[kb[2]].kind = "table_like"
                          <=> HasColumns(ExtractedPage.blocks[kb[1]].t))
        /\ \A txt \in DocumentTexts \cup
                      {out.blocks[b].text : b \in DOMAIN out.blocks} :
              /\ Find(out.tables_text, txt) >= 0
                    <=> \E b \in DOMAIN out.blocks :
                           /\ out.blocks[b].kind = "table_like"
                           /\ Find(out.blocks[b].text, txt) >= 0
              /\ (\E c \in DOMAIN out.figure_captions :
                        out.figure_captions[c] = txt)
                    <=> \E b \in DOMAIN out.blocks :
                           /\ out.blocks[b].kind = "caption"
                           /\ out.blocks[b].text = txt

\* The index of the last occurrence of sub that ends within the first
\* `budget` characters of str, or -1.
LastBefore(str, sub, budget) ==
    LET found == {i \in 0..(budget - Len(sub)) :
                     /\ i + Len(sub) <= Len(str)
                     /\ \A k \in 1..Len(sub) : str[i + k] = sub[k]}
    IN  IF found = {} THEN -1 ELSE CHOOSE i \in found : \A j \in found : j <= i

\* Not found, or before 60% of the budget (in whole characters).
TooEarly(index, budget) ==
    index < 0 \/ 10 * index < 6 * budget - ((6 * budget) % 10)

\* Where a text longer than the budget is cut.
SoftCut(str, budget) ==
    IF ~TooEarly(LastBefore(str, <<"\n">>, budget), budget)
    THEN LastBefore(str, <<"\n">>, budget)
    ELSE IF ~TooEarly(LastBefore(str, <<".", " ">>, budget), budget)
    THEN LastBefore(str, <<".", " ">>, budget)
    ELSE budget

C26_SingleComputation ==
    /\ [](ext_page = {} => (hf_computes = 0 /\ _hf_sigs = {}))
    /\ [][IF ext_page = {}
          THEN /\ hf_computes' = 1
               /\ _hf_sigs' = {_compute_header_footer_signatures(self_doc, 12)}
          ELSE /\ hf_computes' = hf_computes
               /\ _hf_sigs' = _hf_sigs
               /\ _hf_sigs # {}]_vars

C26_Witness ==
    /\ ext_page = {2}
    /\ hf_computes = 1
    /\ _hf_sigs = {[header |-> {}, footer |-> {}]}
    /\ Len(self_doc) = 2

\* The block at index k of the output blocks is not after the next one in
\* the order by top edge, then left edge.
NotAfterNext(blocks, k) ==
    \/ blocks[k].bbox[2] < blocks[k + 1].bbox[2]
    \/ /\ blocks[k].bbox[2] = blocks[k + 1].bbox[2]
       /\ blocks[k].bbox[1] <= blocks[k + 1].bbox[1]

\* The indices of the output blocks whose text differs from the text of
\* the block immediately before.
KeptIndices(blocks) ==
    {k \in 1..Len(blocks) : k = 1 \/ blocks[k].text # blocks[k - 1].text}

\* The texts of the output blocks at the kept indices, in order.
KeptTexts(blocks) ==
    [j \in 1..Cardinality(KeptIndices(blocks)) |->
        blocks[CHOOSE k \in KeptIndices(blocks) :
                   Cardinality({m \in KeptIndices(blocks) : m <= k}) = j].text]

\* C27: the output blocks are ordered by (top edge, left edge),
\* non-decreasing, and the clean text is the blank-line-joined sequence of
\* their texts in that order without every block whose text equals the
\* text of the block immediately before; no two adjacent parts are equal.
C27_CleanTextAssembly ==
    \A out \in ext_out :
        /\ \A k \in 1..(Len(out.blocks) - 1) : NotAfterNext(out.blocks, k)
        /\ out.text = Join(KeptTexts(out.blocks), <<"\n", "\n">>)
        /\ \A j \in 1..(Len(KeptTexts(out.blocks)) - 1) :
               KeptTexts(out.blocks)[j] # KeptTexts(out.blocks)[j + 1]

C27_Witness ==
    \E out \in ext_out :
        /\ Len(out.blocks) = 4
        /\ out.blocks[3].text = out.blocks[4].text
        /\ out.blocks[1].text = out.blocks[3].text
        /\ out.text = <<"h", "o", "l", "a", "\n", "\n", "a", " ", "|", " ",
            "b", "\n", "\n", "h", "o", "l", "a">>

\* The hits of the request that have a payload, in result order.
HitsWithPayload ==
    SelectSeq(SubSeq(search_ranking, 1,
                     LET limit == IF search_query.limit \in {{}, {0}} THEN 5
                                  ELSE CHOOSE n \in search_query.limit : TRUE
                     IN  IF limit < Len(search_ranking) THEN limit
                         ELSE Len(search_ranking)),
              LAMBDA hit : hit.payload # {})

\* C28: for every search hit with a payload, the formatted context
\* returned for it is what build_llm_context produces for the hit's
\* payload and the query text, and full_prompt_context is the
\* concatenation, in result order, of the formatted contexts returned.
C28_QueryFlow ==
    \A r \in search_response :
        /\ r.status_code = 200
        /\ Len(r.results) = Len(HitsWithPayload)
        /\ \A k \in DOMAIN r.results :
               r.results[k].formated_context
                 = build_llm_context(
                       CHOOSE pl \in HitsWithPayload[k].payload : TRUE,
                       {search_query.text},
                       DefaultLimits.max_chars,
                       DefaultLimits.max_table_chars,
                       DefaultLimits.max_caption_chars,
                       DefaultLimits.max_text_chars)
        /\ r.full_prompt_context
             = Join([k \in DOMAIN r.results |->
                        r.results[k].formated_context], <<>>)

\* The handler took upload k in: it is a PDF that passed the validation
\* and was stored, and the handler went on to its ingestion.
TakenIn(k) ==
    \/ "error" \notin DOMAIN results[k]
    \/ results[k].error = "TypeError"

\* The content hash of upload k.
UploadHash(k) == GenerateFileHash(files[k].bytes)

\* The path names the file {content_hash}.pdf of the data directory.
NamesStoredFile(path, content_hash) ==
    /\ path[1] = "DATA_DIR"
    /\ path[2].name = content_hash
    /\ path[2].ext = "pdf"

\* C29: once the handler has taken a PDF in, a file is at
\* {content_hash}.pdf in the data directory and the documents table has a
\* row of that hash whose upload_path names that file.
C29_StoredAtContentPath ==
    \A k \in 1..Len(results) :
        TakenIn(k) =>
            /\ \E d \in data_dir :
                  d.hash = UploadHash(k) /\ d.bytes = files[k].bytes
            /\ \E r \in documents :
                  /\ r.doc_hash = UploadHash(k)
                  /\ NamesStoredFile(r.upload_path, UploadHash(k))

====
